---- MODULE Spec2Model ----
(***************************************************************************)
(* A model of citeformat (citeformat.py, citeformat_app.py).               *)
(*                                                                         *)
(* Python strings are modelled as sequences of one-character strings, so   *)
(* that trimming, splitting, searching and joining are computed character  *)
(* by character as the code computes them.  Python's None is the value     *)
(* None below, which is no sequence of characters.                         *)
(***************************************************************************)
EXTENDS Integers, Sequences, FiniteSets, TLC

VARIABLES
    line,       \* classifier: the input line being typed, then classified
    typed,      \* classifier: the pipe parts typed into line so far
    lineKind,   \* classifier: "empty", "parts" or "doi" (how line was typed)
    bareDoi,    \* classifier: the bare DOI typed into a DOI line, else None
    info,       \* classifier: the dict returned by detect_input_type
    cpc,        \* classifier: "input", "returned" or "raised"
    rec,        \* formatter: the metadata record being formatted
    rawDoi,     \* formatter: the canonical identifier passed as raw_doi
    ordinal,    \* formatter: the ordinal passed as idx (0 before the call)
    style,      \* formatter: which formatter was called ("" before the call)
    out,        \* formatter: the citation string returned
    fpc,        \* formatter: "idle", "build" or "done"
    author,     \* matcher: the author entry a query is matched against
    query,      \* matcher: the name the user entered to highlight
    matched,    \* matcher: what _author_matches_query returned
    mpc,        \* matcher: "idle", "input", "entered" or "done"
    htext,      \* highlighter: the citation text, then the text after each pass
    targets,    \* highlighter: the name variants to wrap, longest first
    tagPair,    \* highlighter: the open and close tag in use
    hpc,        \* highlighter: "idle" or "run"
    rawInput,   \* GUI: the lines of the reference text area
    runs,       \* GUI: how often Format References was clicked
    entries,    \* GUI: session_state.entries
    ambiguous,  \* GUI: session_state.ambiguous
    done,       \* GUI: session_state.done
    seen_dois,  \* GUI: session_state.seen_dois
    lookups,    \* GUI: the exact lookups issued since the last Format click
    gerr,       \* GUI: the exception that ended the last script run, or ""
    gpc,        \* GUI: "idle" or "ready"
    caller,     \* transport: "fetch_by_doi" or "search_crossref", the caller of _get
    url,        \* transport: the request target passed to _get
    attempt,    \* transport: the loop variable of _get
    elapsed,    \* transport: ticks since _last_request_time, at most RateTicks
    gap,        \* transport: ticks between the last request and the one before it
    requests,   \* transport: requests issued by this _get call
    sleeps,     \* transport: the time.sleep calls of this _get call
    response,   \* transport: what the service answered to the last request
    getResult,  \* transport: what _get returned or raised
    wres,       \* transport: what the caller of _get returned
    calls,      \* transport: _get calls completed
    tpc,        \* transport: "idle", "ready", "wait", "inflight" or "got"
    cliLine,    \* main: the line being resolved
    cands,      \* resolve_input: the candidates shown
    choice,     \* resolve_input: the last answer typed at the prompt
    net,        \* whether the service answered the last lookup
    prompts,    \* resolve_input: prompts printed for this line
    ret,        \* resolve_input: what it returned or raised
    cliIdx,     \* main: idx
    cliDone,    \* main: lines processed
    clipc,      \* where the command-line program is
    configured, \* whether the upstash secrets are set
    serverParses,\* whether the store decodes a JSON request body before it keeps it
    redis,      \* the store: key to the string kept under it
    netCalls,   \* calls of fetch_by_doi and search_crossref made by the cached wrappers
    hit,        \* whether the last cached call was answered from the store
    cres,       \* what the last cached call returned
    ures,       \* what the uncached call returns for the same arguments
    lookupsDone,\* cached calls made
    kpc         \* where the cache client is

classifyVars == <<line, typed, lineKind, bareDoi, info, cpc>>

formatVars == <<rec, rawDoi, ordinal, style, out, fpc>>

matchVars == <<author, query, matched, mpc>>

highlightVars == <<htext, targets, tagPair, hpc>>

guiVars == <<rawInput, runs, entries, ambiguous, done, seen_dois, lookups, gerr, gpc>>

getVars == <<caller, url, attempt, elapsed, gap, requests, sleeps, response, getResult, wres, calls, tpc>>

cliVars == <<cliLine, cands, choice, net, prompts, ret, cliIdx, cliDone, clipc>>

cacheVars == <<configured, serverParses, redis, netCalls, hit, cres, ures, lookupsDone, kpc>>

vars == <<classifyVars, formatVars, matchVars, highlightVars, guiVars, getVars, cliVars, cacheVars>>

\* what each component leaves alone: the variables of the others
notClassifyVars == <<formatVars, matchVars, highlightVars, guiVars, getVars, cliVars, cacheVars>>

notFormatVars == <<classifyVars, matchVars, highlightVars, guiVars, getVars, cliVars, cacheVars>>

notMatchVars == <<classifyVars, formatVars, highlightVars, guiVars, getVars, cliVars, cacheVars>>

notHighlightVars == <<classifyVars, formatVars, matchVars, guiVars, getVars, cliVars, cacheVars>>

notGuiVars == <<classifyVars, formatVars, matchVars, highlightVars, getVars, cliVars, cacheVars>>

notGetVars == <<classifyVars, formatVars, matchVars, highlightVars, guiVars, cliVars, cacheVars>>

notCliVars == <<classifyVars, formatVars, matchVars, highlightVars, guiVars, getVars, cacheVars>>

notCacheVars == <<classifyVars, formatVars, matchVars, highlightVars, guiVars, getVars, cliVars>>

-----------------------------------------------------------------------------
(* Characters and the str methods the code uses.                           *)

None == <<"<None>">>

UpperChars == <<"A","B","C","D","E","F","G","H","I","J","K","L","M","N","O","P","Q","R","S","T","U","V","W","X","Y","Z">>
LowerChars == <<"a","b","c","d","e","f","g","h","i","j","k","l","m","n","o","p","q","r","s","t","u","v","w","x","y","z">>
Digits == {"0","1","2","3","4","5","6","7","8","9"}

Range(s) == {s[i] : i \in DOMAIN s}

UpperSet == Range(UpperChars)
LowerSet == Range(LowerChars)

LowerMap == [c \in UpperSet |-> LowerChars[CHOOSE i \in 1..Len(UpperChars) : UpperChars[i] = c]]

IsDigit(c) == c \in Digits
IsAlpha(c) == c \in UpperSet \/ c \in LowerSet
\* \w of the re module, on the characters the model uses
IsWord(c) == IsAlpha(c) \/ IsDigit(c) \/ c = "_"
IsSpace(c) == c = " "

LowerChar(c) == IF c \in UpperSet THEN LowerMap[c] ELSE c
\* str.lower
Lower(s) == [i \in 1..Len(s) |-> LowerChar(s[i])]

\* s[i:] for a 1-based i
From(s, i) == SubSeq(s, i, Len(s))

\* str.strip(chars)
StripSet(s, cs) ==
    LET keep == {i \in 1..Len(s) : s[i] \notin cs}
    IN  IF keep = {} THEN <<>>
        ELSE SubSeq(s, CHOOSE i \in keep : \A j \in keep : i <= j,
                       CHOOSE i \in keep : \A j \in keep : i >= j)

\* str.strip()
Strip(s) == StripSet(s, {" "})

\* str.startswith
StartsWith(s, p) == Len(p) <= Len(s) /\ SubSeq(s, 1, Len(p)) = p

\* needle in hay
Contains(hay, needle) ==
    \E i \in 1..(Len(hay) - Len(needle) + 1) : SubSeq(hay, i, i + Len(needle) - 1) = needle

\* str.split(sep) for a one-character sep: never an empty list
RECURSIVE SplitFrom(_, _, _, _)
SplitFrom(s, sep, i, cur) ==
    IF i > Len(s) THEN <<cur>>
    ELSE IF s[i] = sep THEN <<cur>> \o SplitFrom(s, sep, i + 1, <<>>)
    ELSE SplitFrom(s, sep, i + 1, Append(cur, s[i]))

Split(s, sep) == SplitFrom(s, sep, 1, <<>>)

\* str.split(): runs of whitespace separate, no empty token
RECURSIVE WordsFrom(_, _, _)
WordsFrom(s, i, cur) ==
    IF i > Len(s) THEN (IF cur = <<>> THEN <<>> ELSE <<cur>>)
    ELSE IF IsSpace(s[i])
         THEN (IF cur = <<>> THEN <<>> ELSE <<cur>>) \o WordsFrom(s, i + 1, <<>>)
         ELSE WordsFrom(s, i + 1, Append(cur, s[i]))

Words(s) == WordsFrom(s, 1, <<>>)

\* sep.join(xs)
RECURSIVE Join(_, _)
Join(sep, xs) ==
    IF xs = <<>> THEN <<>>
    ELSE IF Len(xs) = 1 THEN xs[1]
    ELSE xs[1] \o sep \o Join(sep, Tail(xs))

-----------------------------------------------------------------------------
(* INPUT AUTO-DETECTION                                                    *)

Resolvers == {
    <<"h","t","t","p",":","/","/","d","o","i",".","o","r","g","/">>,
    <<"h","t","t","p","s",":","/","/","d","o","i",".","o","r","g","/">>,
    <<"h","t","t","p",":","/","/","d","x",".","d","o","i",".","o","r","g","/">>,
    <<"h","t","t","p","s",":","/","/","d","x",".","d","o","i",".","o","r","g","/">> }

\* number of leading digits of s
RECURSIVE DigitRun(_)
DigitRun(s) == IF s # <<>> /\ IsDigit(Head(s)) THEN 1 + DigitRun(Tail(s)) ELSE 0

\* (10\.\d{4,9}/\S+)$ anchored at the start of t
DoiBody(t) ==
    /\ StartsWith(t, <<"1","0",".">>)
    /\ LET k == DigitRun(From(t, 4))
       IN  /\ k >= 4 /\ k <= 9
           /\ Len(t) >= 4 + k + 1
           /\ t[4 + k] = "/"
           /\ \A i \in (4 + k + 1)..Len(t) : ~IsSpace(t[i])

\* group 2 of the whole-string match: what is left after a resolver prefix
DOI_RE_group2(s) ==
    LET pre == {r \in Resolvers : StartsWith(Lower(s), r) /\ DoiBody(From(s, Len(r) + 1))}
    IN  IF pre # {} THEN From(s, Len(CHOOSE r \in pre : TRUE) + 1) ELSE s

\* a variant that captures the whole match instead of group 2
DOI_RE_wholeMatch(s) ==
    [matched |-> DoiBody(DOI_RE_group2(s)), group2 |-> s]

\* DOI_RE.match(s): [matched, group2]
DOI_RE(s) ==
    LET g == DOI_RE_group2(s)
    IN  [matched |-> DoiBody(g), group2 |-> g]

\* \b(19|20)\d{2}\b matches s at i
YearAt(s, i) ==
    /\ i >= 1 /\ i + 3 <= Len(s)
    /\ s[i] \in {"1", "2"}
    /\ (s[i] = "1" => s[i + 1] = "9")
    /\ (s[i] = "2" => s[i + 1] = "0")
    /\ IsDigit(s[i + 2]) /\ IsDigit(s[i + 3])
    /\ (i = 1 \/ ~IsWord(s[i - 1]))
    /\ (i + 3 = Len(s) \/ ~IsWord(s[i + 4]))

YearStarts(s) == {i \in 1..Len(s) : YearAt(s, i)}

\* YEAR_RE.search(s): [found, group0], the leftmost match
YEAR_RE_search(s) ==
    LET ms == YearStarts(s)
    IN  IF ms = {} THEN [found |-> FALSE, group0 |-> None]
        ELSE LET i == CHOOSE i \in ms : \A j \in ms : i <= j
             IN  [found |-> TRUE, group0 |-> SubSeq(s, i, i + 3)]

\* YEAR_RE.sub('', s): every match removed
RECURSIVE YearSubFrom(_, _)
YearSubFrom(s, i) ==
    IF i > Len(s) THEN <<>>
    ELSE IF YearAt(s, i) THEN YearSubFrom(s, i + 4)
    ELSE <<s[i]>> \o YearSubFrom(s, i + 1)

YEAR_RE_sub(s) == YearSubFrom(s, 1)

JOURNAL_HINTS == {
    <<"n","a","t","u","r","e">>,
    <<"s","c","i","e","n","c","e">>,
    <<"c","e","l","l">>,
    <<"l","a","n","c","e","t">>,
    <<"n","e","j","m">>,
    <<"j","a","m","a">>,
    <<"p","n","a","s">>,
    <<"p","l","o","s">>,
    <<"i","e","e","e">>,
    <<"a","c","m">>,
    <<"n","e","u","r","i","p","s">>,
    <<"n","i","p","s">>,
    <<"i","c","m","l">>,
    <<"i","c","l","r">>,
    <<"c","v","p","r">>,
    <<"a","a","a","i">>,
    <<"e","m","n","l","p">>,
    <<"a","c","l">>,
    <<"n","a","a","c","l">>,
    <<"a","r","x","i","v">>,
    <<"b","i","o","r","x","i","v">>,
    <<"m","e","d","r","x","i","v">>,
    <<"a","n","n","a","l","s">>,
    <<"j","o","u","r","n","a","l">>,
    <<"l","e","t","t","e","r","s">>,
    <<"r","e","v","i","e","w">>,
    <<"p","r","o","c","e","e","d","i","n","g","s">>,
    <<"t","r","a","n","s","a","c","t","i","o","n","s">>,
    <<"f","r","o","n","t","i","e","r","s">>,
    <<"n","a","t","u","r","e"," ","m","e","d","i","c","i","n","e">>,
    <<"n","a","t","u","r","e"," ","m","e","t","h","o","d","s">>,
    <<"n","a","t","u","r","e"," ","c","o","m","m","u","n","i","c","a","t","i","o","n","s">> }

looks_like_journal(text) ==
    LET t == Strip(Lower(text))
    IN  \/ \E hint \in JOURNAL_HINTS : Contains(t, hint)
        \/ (Len(Words(t)) <= 3 /\ Len(t) <= 40)

looks_like_author(text) ==
    LET t == Strip(text)
        words == Words(t)
    IN  /\ ~(\E i \in 1..Len(t) : IsDigit(t[i]))
        /\ Len(words) <= 3
        /\ \A i \in 1..Len(words) : Len(words[i]) >= 2

\* a variant that takes the year of a short part and keeps the part as a field
RECURSIVE ExtractYear_keepShort(_, _, _)
ExtractYear_keepShort(parts, year, clean_parts) ==
    IF parts = <<>> THEN [year |-> year, clean_parts |-> clean_parts]
    ELSE LET p  == Head(parts)
             ym == YEAR_RE_search(p)
         IN  IF ym.found /\ Len(Strip(p)) <= 6
             THEN ExtractYear_keepShort(Tail(parts), ym.group0, Append(clean_parts, p))
             ELSE IF ym.found
                  THEN LET q == StripSet(YEAR_RE_sub(p), {" ", ","})
                       IN  ExtractYear_keepShort(Tail(parts), ym.group0,
                                       IF q # <<>> THEN Append(clean_parts, q) ELSE clean_parts)
                  ELSE ExtractYear_keepShort(Tail(parts), year,
                                   IF p # <<>> THEN Append(clean_parts, p) ELSE clean_parts)

\* the year-extraction loop over the pipe parts: [year, clean_parts]
RECURSIVE ExtractYear(_, _, _)
ExtractYear(parts, year, clean_parts) ==
    IF parts = <<>> THEN [year |-> year, clean_parts |-> clean_parts]
    ELSE LET p  == Head(parts)
             ym == YEAR_RE_search(p)
         IN  IF ym.found /\ Len(Strip(p)) <= 6
             THEN ExtractYear(Tail(parts), ym.group0, clean_parts)
             ELSE IF ym.found
                  THEN LET q == StripSet(YEAR_RE_sub(p), {" ", ","})
                       IN  ExtractYear(Tail(parts), ym.group0,
                                       IF q # <<>> THEN Append(clean_parts, q) ELSE clean_parts)
                  ELSE ExtractYear(Tail(parts), year,
                                   IF p # <<>> THEN Append(clean_parts, p) ELSE clean_parts)

\* the result dict as first built
EmptyResult(raw) ==
    [raw |-> raw, type |-> "unset", doi |-> None, title |-> None,
     author |-> None, journal |-> None, year |-> None]

Returns(v) == [raised |-> FALSE, value |-> v]
Raises(v) == [raised |-> TRUE, value |-> v]

\* exactly two parts are left
ClassifyTwo(result, cp, year) ==
    IF looks_like_author(cp[1]) /\ looks_like_journal(cp[2])
    THEN Returns([result EXCEPT !.type = "author_journal_year",
                                !.author = cp[1], !.journal = cp[2]])
    ELSE IF looks_like_journal(cp[2])
    THEN Returns([result EXCEPT !.type = "title_journal_year",
                                !.title = cp[1], !.journal = cp[2]])
    ELSE Returns([result EXCEPT !.type = "title_year", !.title = cp[1],
                                !.journal = IF year = None THEN cp[2] ELSE None])

\* a variant that tests the middle part as journal first
ClassifyThree_middleFirst(result, cp) ==
    IF looks_like_author(cp[1]) /\ looks_like_journal(cp[2])
    THEN Returns([result EXCEPT !.type = "author_journal_year",
                                !.author = cp[1], !.journal = cp[2]])
    ELSE IF looks_like_author(cp[1]) /\ looks_like_journal(cp[3])
    THEN Returns([result EXCEPT !.type = "author_title_journal_year",
                                !.author = cp[1], !.title = cp[2], !.journal = cp[3]])
    ELSE Returns([result EXCEPT !.type = "title_journal_year",
                                !.title = cp[1], !.journal = cp[2]])

\* exactly three parts are left
ClassifyThree(result, cp) ==
    IF looks_like_author(cp[1]) /\ looks_like_journal(cp[3])
    THEN Returns([result EXCEPT !.type = "author_title_journal_year",
                                !.author = cp[1], !.title = cp[2], !.journal = cp[3]])
    ELSE IF looks_like_author(cp[1]) /\ looks_like_journal(cp[2])
    THEN Returns([result EXCEPT !.type = "author_journal_year",
                                !.author = cp[1], !.journal = cp[2]])
    ELSE Returns([result EXCEPT !.type = "title_journal_year",
                                !.title = cp[1], !.journal = cp[2]])

\* a variant that takes a single part for the journal
ClassifyParts_journalOnly(result, cp, year) ==
    IF Len(cp) = 1
    THEN Returns([result EXCEPT !.type = "title_only", !.journal = cp[1]])
    ELSE IF Len(cp) = 2 THEN ClassifyTwo(result, cp, year)
    ELSE IF Len(cp) = 3 THEN ClassifyThree(result, cp)
    ELSE IF Len(cp) = 0
    THEN Raises([result EXCEPT !.type = "author_title_journal_year"])
    ELSE Returns([result EXCEPT !.type = "author_title_journal_year",
                                !.author = cp[1],
                                !.title = Join(<<" ">>, SubSeq(cp, 2, Len(cp) - 1)),
                                !.journal = cp[Len(cp)]])

\* the classification of the parts left after year extraction
ClassifyParts(result, cp, year) ==
    IF Len(cp) = 1
    THEN Returns([result EXCEPT !.type = "title_only", !.title = cp[1]])
    ELSE IF Len(cp) = 2 THEN ClassifyTwo(result, cp, year)
    ELSE IF Len(cp) = 3 THEN ClassifyThree(result, cp)
    ELSE IF Len(cp) = 0
    \* clean_parts[0] of an empty list: IndexError, after type was assigned
    THEN Raises([result EXCEPT !.type = "author_title_journal_year"])
    ELSE Returns([result EXCEPT !.type = "author_title_journal_year",
                                !.author = cp[1],
                                !.title = Join(<<" ">>, SubSeq(cp, 2, Len(cp) - 1)),
                                !.journal = cp[Len(cp)]])

\* a variant whose DOI branch does not return and falls through to the parts
detect_input_type_noReturn(raw) ==
    LET s == Strip(raw)
        m == DOI_RE(s)
        split == Split(s, "|")
        parts == [i \in 1..Len(split) |-> Strip(split[i])]
        ex    == ExtractYear(parts, None, <<>>)
        start == IF m.matched
                 THEN [EmptyResult(raw) EXCEPT !.type = "doi", !.doi = m.group2]
                 ELSE EmptyResult(raw)
    IN  ClassifyParts([start EXCEPT !.year = ex.year], ex.clean_parts, ex.year)

\* detect_input_type(line): what it returns, or that it raises
detect_input_type(raw) ==
    LET s == Strip(raw)
        m == DOI_RE(s)
    IN  IF m.matched
        THEN Returns([EmptyResult(raw) EXCEPT !.type = "doi", !.doi = m.group2])
        ELSE LET split == Split(s, "|")
                 parts == [i \in 1..Len(split) |-> Strip(split[i])]
                 ex    == ExtractYear(parts, None, <<>>)
             IN  ClassifyParts([EmptyResult(raw) EXCEPT !.year = ex.year],
                               ex.clean_parts, ex.year)

-----------------------------------------------------------------------------
(* The classifier driven on typed lines.                                   *)

MaxParts == 4

Pipe == <<" ","|"," ">>

S_Vaswani == <<"V","a","s","w","a","n","i">>
S_AVaswani == <<"A"," ","V","a","s","w","a","n","i">>
S_Attention == <<"A","t","t","e","n","t","i","o","n"," ","i","s"," ","a","l","l"," ","y","o","u"," ","n","e","e","d">>
S_NeurIPS == <<"N","e","u","r","I","P","S">>
S_2017 == <<"2","0","1","7">>
S_Published == <<"P","u","b","l","i","s","h","e","d"," ","2","0","1","9"," ","r","e","s","u","l","t","s">>
S_Paren2018 == <<"(","2","0","1","8",")">>

\* the parts a line is typed from
PartVocab == {S_Vaswani, S_AVaswani, S_Attention, S_NeurIPS, S_2017, S_Paren2018,
              S_Published, <<>>}

\* bare DOIs of the shape 10.NNNN/suffix
DoiVocab == {
    <<"1","0",".","1","0","3","8","/","x","1">>,
    <<"1","0",".","1","2","3","4","5","6","7","8","9","/","A",".","b","(","2",")">> }

\* resolver prefixes as a user may type them: none, the four forms, upper case
PrefixVocab == Resolvers \cup {<<>>, <<"H","T","T","P","S",":","/","/","D","O","I",".","O","R","G","/">>}

\* one more pipe-separated part is typed
TypePart(p) ==
    /\ cpc = "input"
    /\ lineKind \in {"empty", "parts"}
    /\ Len(typed) < MaxParts
    /\ line' = IF typed = <<>> THEN p ELSE line \o Pipe \o p
    /\ typed' = Append(typed, p)
    /\ lineKind' = "parts"
    /\ UNCHANGED <<bareDoi, info, cpc, notClassifyVars>>

\* a DOI is typed, bare or behind a resolver URL
TypeDoi(r, d) ==
    /\ cpc = "input"
    /\ lineKind = "empty"
    /\ line' = r \o d
    /\ typed' = <<r \o d>>
    /\ lineKind' = "doi"
    /\ bareDoi' = d
    /\ UNCHANGED <<info, cpc, notClassifyVars>>

\* main: blank and comment lines are dropped, the others are stripped and
\* classified
Classify ==
    /\ cpc = "input"
    /\ Strip(line) # <<>>
    /\ ~StartsWith(line, <<"#">>)
    /\ LET r == detect_input_type(Strip(line))
       IN  /\ cpc' = IF r.raised THEN "raised" ELSE "returned"
           /\ info' = IF r.raised THEN info ELSE r.value
    /\ UNCHANGED <<line, typed, lineKind, bareDoi, notClassifyVars>>

ClassifyNext ==
    \/ \E p \in PartVocab : TypePart(p)
    \/ \E r \in PrefixVocab, d \in DoiVocab : TypeDoi(r, d)
    \/ Classify

-----------------------------------------------------------------------------
(* Claims about the classifier, checked under SpecClassify.                *)

Classified == cpc \in {"returned", "raised"}

HasYearToken(p) == YearStarts(p) # {}

\* C1: detect_input_type never fails: every classified line gets a
\* descriptor back (no exception leaves the classifier).
C1_ClassifyNeverFails == Classified => cpc = "returned"

\* C2: every DOI-shaped line, bare or behind a resolver URL, is classified
\* as kind doi and its doi field is the bare DOI without the resolver prefix.
C2_DoiLineGivesBareDoi ==
    (Classified /\ lineKind = "doi")
        => (cpc = "returned" /\ info.type = "doi" /\ info.doi = bareDoi)

C2_Witness ==
    /\ cpc = "returned" /\ lineKind = "doi"
    /\ Len(line) > Len(bareDoi)
    /\ info.type = "doi" /\ info.doi = bareDoi

\* C3: in every returned descriptor, kind is doi exactly when doi is set and
\* title, author, journal and year are all unset; every other kind has no doi.
C3_DoiIffOnlyDoiSet ==
    cpc = "returned" =>
        /\ (info.type = "doi") <=>
               (/\ info.doi # None /\ info.title = None /\ info.author = None
                /\ info.journal = None /\ info.year = None)
        /\ (info.type # "doi" => info.doi = None)

C3_Witness ==
    /\ cpc = "returned" /\ lineKind = "parts"
    /\ info.type = "title_journal_year" /\ info.year # None /\ info.doi = None

\* a line of four non-empty fields whose last field is a bare year
FourFieldLine ==
    /\ lineKind = "parts" /\ Len(typed) = 4
    /\ \A i \in 1..3 : typed[i] # <<>> /\ typed[i] # S_2017
    /\ typed[4] = S_2017

\* C4 as stated: every well-formed line Author | Title | Journal | Year is
\* classified author_title_journal_year with all four fields populated.
C4_FourFieldsAlwaysATJY ==
    (Classified /\ FourFieldLine) =>
        /\ cpc = "returned"
        /\ info.type = "author_title_journal_year"
        /\ info.author # None /\ info.title # None
        /\ info.journal # None /\ info.year # None

\* C4 amended: a four-field line whose author, title and journal fields hold
\* no year token, whose author field looks like an author and whose journal
\* field looks like a journal, is classified author_title_journal_year with
\* the three fields and the year token as typed.
C4_FourFieldsATJYWhenHeuristicsAgree ==
    (/\ Classified /\ FourFieldLine
     /\ \A i \in 1..3 : ~HasYearToken(typed[i])
     /\ looks_like_author(typed[1]) /\ looks_like_journal(typed[3]))
        => /\ cpc = "returned"
           /\ info.type = "author_title_journal_year"
           /\ info.author = typed[1] /\ info.title = typed[2]
           /\ info.journal = typed[3] /\ info.year = typed[4]

C4_Witness ==
    /\ cpc = "returned"
    /\ typed = <<S_Vaswani, S_Attention, S_NeurIPS, S_2017>>
    /\ info.type = "author_title_journal_year"
    /\ info.title = S_Attention

\* C5: the line "Attention is all you need | 2017" is classified title_year
\* with that title and year 2017.
C5_TitleYearExample ==
    (Classified /\ line = S_Attention \o Pipe \o S_2017)
        => /\ cpc = "returned"
           /\ info.type = "title_year"
           /\ info.title = S_Attention
           /\ info.year = S_2017

\* a pipe part of trimmed length at most 6 that holds a year token
ShortYearPart(p) == HasYearToken(p) /\ Len(Strip(p)) <= 6

YearTokenOf(p) == YEAR_RE_search(p).group0

\* what a part leaves among the fields: nothing for a short year part, the
\* part without its year tokens otherwise
LeftBy(p) ==
    IF ShortYearPart(p) THEN <<>>
    ELSE IF HasYearToken(p) THEN StripSet(YEAR_RE_sub(p), {" ", ","})
    ELSE p

\* the typed parts other than the short year parts, as they are left
LeftByOthers ==
    LET left == [i \in 1..Len(typed) |-> LeftBy(typed[i])]
    IN  SelectSeq(left, LAMBDA q : q # <<>>)

\* title, author and journal are each unset, one of the parts left by the
\* others, or consecutive ones joined by a space
FieldsFromOthers ==
    LET lo    == LeftByOthers
        joins == {Join(<<" ">>, SubSeq(lo, a, b)) : a \in 1..Len(lo), b \in 1..Len(lo)}
    IN  \A f \in {"title", "author", "journal"} :
            info[f] = None \/ (info[f] # <<>> /\ info[f] \in joins)

\* the typed parts that hold a year token
YearParts == {i \in 1..Len(typed) : HasYearToken(typed[i])}

\* C22 as stated: a pipe part of trimmed length at most 6 holding a year token
\* is consumed whole as the year: the descriptor's year is that token and no
\* piece of the part shows in title, author or journal.
C22_ShortYearPartIsTheYear ==
    (cpc = "returned" /\ lineKind = "parts") =>
        \A i \in 1..Len(typed) :
            ShortYearPart(typed[i]) =>
                /\ info.year = YearTokenOf(typed[i])
                /\ FieldsFromOthers

\* C22 amended: such a part is consumed whole and no piece of it shows in
\* title, author or journal; the descriptor's year is its token when no later
\* part holds a year token (the last part holding one gives the year).
C22_ShortYearPartConsumedLastYearWins ==
    (cpc = "returned" /\ lineKind = "parts"
        /\ \E i \in 1..Len(typed) : ShortYearPart(typed[i])) =>
        /\ \A j \in YearParts :
               (\A k \in YearParts : k <= j) => info.year = YearTokenOf(typed[j])
        /\ FieldsFromOthers

C22_Witness ==
    /\ cpc = "returned"
    /\ typed = <<S_Vaswani, S_Paren2018, S_NeurIPS>>
    /\ info.year = <<"2","0","1","8">>
    /\ info.author = S_Vaswani /\ info.journal = S_NeurIPS /\ info.title = None

\* C23: a part longer than 6 characters loses its year token only, and what
\* is left is trimmed of the double space the token leaves behind: the line
\* "Published 2019 results" gives year 2019 and the text "Published results".
C23_RemainderWithoutDoubleSpace ==
    (Classified /\ line = S_Published) =>
        /\ cpc = "returned"
        /\ info.year = <<"2","0","1","9">>
        /\ info.title = <<"P","u","b","l","i","s","h","e","d"," ","r","e","s","u","l","t","s">>

-----------------------------------------------------------------------------
(* FIELD HELPERS.  A metadata record and an author entry are dicts: TLA+    *)
(* functions whose domain is the set of keys present.                      *)

\* dict.get(key, default)
Get(d, k, default) == IF k \in DOMAIN d THEN d[k] ELSE default

\* str(n) for a natural number
RECURSIVE Str(_)
Str(n) ==
    LET digit == <<"0","1","2","3","4","5","6","7","8","9">>[(n % 10) + 1]
    IN  IF n < 10 THEN <<digit>> ELSE Str(n \div 10) \o <<digit>>

get_authors(msg) == Get(msg, "author", <<>>)
get_volume(msg) == Get(msg, "volume", <<>>)
get_issue(msg) == Get(msg, "issue", <<>>)
get_pages(msg) == Get(msg, "page", <<>>)

\* "".join(f"{p[0]}." for p in given.split()) if given else ""
RECURSIVE InitialsOf(_)
InitialsOf(words) ==
    IF words = <<>> THEN <<>>
    ELSE <<Head(words)[1], ".">> \o InitialsOf(Tail(words))

\* a variant that keeps the initial of the first given-name token only
Initials_firstOnly(given) ==
    IF Words(given) # <<>> THEN <<Words(given)[1][1], ".">> ELSE <<>>

\* a variant that puts a space between the initials
Initials_spaced(given) ==
    IF given # <<>>
    THEN Join(<<" ">>, [i \in 1..Len(Words(given)) |-> <<Words(given)[i][1], ".">>])
    ELSE <<>>

Initials(given) == IF given # <<>> THEN InitialsOf(Words(given)) ELSE <<>>

FamilyOf(a) == Get(a, "family", Get(a, "name", <<"?">>))

last_first(a) ==
    StripSet(FamilyOf(a) \o <<","," ">> \o Initials(Get(a, "given", <<>>)), {",", " "})

first_last(a) ==
    Strip(Initials(Get(a, "given", <<>>)) \o <<" ">> \o FamilyOf(a))

get_full_names_last_first(authors) == [i \in 1..Len(authors) |-> last_first(authors[i])]

get_full_names_first_last(authors) == [i \in 1..Len(authors) |-> first_last(authors[i])]

DateFields == <<"published", "published-print", "published-online", "issued">>

\* date and date[0] and date[0][0], for date = msg.get(field, {}).get("date-parts")
HasYear(msg, field) ==
    /\ field \in DOMAIN msg
    /\ "date-parts" \in DOMAIN msg[field]
    /\ msg[field]["date-parts"] # <<>>
    /\ msg[field]["date-parts"][1] # <<>>
    /\ msg[field]["date-parts"][1][1] # 0

get_year(msg) ==
    LET have == {i \in 1..Len(DateFields) : HasYear(msg, DateFields[i])}
    IN  IF have = {} THEN <<"n",".","d",".">>
        ELSE Str(msg[DateFields[CHOOSE i \in have : \A j \in have : i <= j]]["date-parts"][1][1])

get_journal(msg) ==
    LET container == Get(msg, "container-title", <<>>)
    IN  IF container # <<>> THEN container[1] ELSE Get(msg, "publisher", <<>>)

\* a variant that leaves a missing title empty
get_title_blank(msg) ==
    LET titles == Get(msg, "title", <<>>)
    IN  IF titles # <<>> THEN titles[1] ELSE <<>>

get_title(msg) ==
    LET titles == Get(msg, "title", <<>>)
    IN  IF titles # <<>> THEN titles[1] ELSE <<"U","n","t","i","t","l","e","d">>

-----------------------------------------------------------------------------
(* CITATION FORMATTERS                                                     *)

DoiUrl == <<"h","t","t","p","s",":","/","/","d","o","i",".","o","r","g","/">>

fmt_apa(msg, raw_doi, idx) ==
    LET names == get_full_names_last_first(get_authors(msg))
        n == Len(names)
        authors ==
            IF n = 0 THEN <<"U","n","k","n","o","w","n">>
            ELSE IF n = 1 THEN names[1]
            ELSE IF n <= 20
                 THEN Join(<<","," ">>, SubSeq(names, 1, n - 1)) \o <<","," ","&"," ">> \o names[n]
                 ELSE Join(<<","," ">>, SubSeq(names, 1, 19)) \o <<","," ",".",".","."," ">> \o names[n]
        vol == get_volume(msg)
        issue == get_issue(msg)
        pages == get_pages(msg)
        source == get_journal(msg)
                  \o (IF vol # <<>> THEN <<","," ">> \o vol ELSE <<>>)
                  \o (IF issue # <<>> THEN <<"(">> \o issue \o <<")">> ELSE <<>>)
                  \o (IF pages # <<>> THEN <<","," ">> \o pages ELSE <<>>)
    IN  Str(idx) \o <<"."," ">> \o authors \o <<" ","(">> \o get_year(msg) \o <<")","."," ">>
        \o get_title(msg) \o <<"."," ">> \o source \o <<"."," ">> \o DoiUrl \o raw_doi

\* a variant whose threshold is off by one
SixThenEtAl_seven(names, etal) ==
    IF Len(names) = 0 THEN <<"U","n","k","n","o","w","n">>
    ELSE IF Len(names) <= 7 THEN Join(<<","," ">>, names)
    ELSE Join(<<","," ">>, SubSeq(names, 1, 6)) \o etal

\* the author list of Vancouver, IEEE and AMA: up to six names, then et al.
SixThenEtAl(names, etal) ==
    IF Len(names) = 0 THEN <<"U","n","k","n","o","w","n">>
    ELSE IF Len(names) <= 6 THEN Join(<<","," ">>, names)
    ELSE Join(<<","," ">>, SubSeq(names, 1, 6)) \o etal

fmt_vancouver(msg, raw_doi, idx) ==
    LET authors == SixThenEtAl(get_full_names_last_first(get_authors(msg)), <<","," ","e","t"," ","a","l",".">>)
        vol == get_volume(msg)
        issue == get_issue(msg)
        pages == get_pages(msg)
        source == get_journal(msg) \o <<".">> \o <<" ">> \o get_year(msg)
                  \o (IF vol # <<>> THEN <<";">> \o vol ELSE <<>>)
                  \o (IF issue # <<>> THEN <<"(">> \o issue \o <<")">> ELSE <<>>)
                  \o (IF pages # <<>> THEN <<":">> \o pages ELSE <<>>)
    IN  Str(idx) \o <<"."," ">> \o authors \o <<"."," ">> \o get_title(msg) \o <<"."," ">>
        \o source \o <<"."," ">> \o DoiUrl \o raw_doi \o <<".">>

fmt_ieee(msg, raw_doi, idx) ==
    LET authors == SixThenEtAl(get_full_names_first_last(get_authors(msg)), <<" ","e","t"," ","a","l",".">>)
        vol == get_volume(msg)
        issue == get_issue(msg)
        pages == get_pages(msg)
        source == <<"*">> \o get_journal(msg) \o <<"*">>
                  \o (IF vol # <<>> THEN <<","," ","v","o","l","."," ">> \o vol ELSE <<>>)
                  \o (IF issue # <<>> THEN <<","," ","n","o","."," ">> \o issue ELSE <<>>)
                  \o (IF pages # <<>> THEN <<","," ","p","p","."," ">> \o pages ELSE <<>>)
    IN  <<"[">> \o Str(idx) \o <<"]"," ">> \o authors \o <<",", " ", "\"">> \o get_title(msg)
        \o <<",", "\"", " ">> \o source \o <<","," ">> \o get_year(msg)
        \o <<","," ","d","o","i",":"," ">> \o DoiUrl \o raw_doi \o <<".">>

fmt_ama(msg, raw_doi, idx) ==
    LET authors == SixThenEtAl(get_full_names_last_first(get_authors(msg)), <<","," ","e","t"," ","a","l",".">>)
        vol == get_volume(msg)
        issue == get_issue(msg)
        pages == get_pages(msg)
        source == get_journal(msg) \o <<".">> \o <<" ">> \o get_year(msg)
                  \o (IF vol # <<>>
                      THEN <<";">> \o vol
                           \o (IF issue # <<>> THEN <<"(">> \o issue \o <<")">> ELSE <<>>)
                           \o (IF pages # <<>> THEN <<":">> \o pages ELSE <<>>)
                      ELSE <<>>)
    IN  Str(idx) \o <<"."," ">> \o authors \o <<"."," ">> \o get_title(msg) \o <<"."," ">>
        \o source \o <<"."," ","d","o","i",":">> \o DoiUrl \o raw_doi

get_last_names(authors) == [i \in 1..Len(authors) |-> FamilyOf(authors[i])]

fmt_plain(msg, raw_doi, idx) ==
    LET last_names == get_last_names(get_authors(msg))
        n == Len(last_names)
        authors ==
            IF n = 0 THEN <<"U","n","k","n","o","w","n">>
            ELSE IF n = 1 THEN last_names[1]
            ELSE IF n = 2 THEN last_names[1] \o <<" ","a","n","d"," ">> \o last_names[2]
            ELSE last_names[1] \o <<" ","e","t"," ","a","l",".">>
    IN  Str(idx) \o <<"."," ">> \o authors \o <<"."," ">> \o get_journal(msg) \o <<"."," ">>
        \o get_year(msg) \o <<"."," ">> \o DoiUrl \o raw_doi \o <<".">>

fmt_mla(msg, raw_doi, idx) ==
    LET authors == get_authors(msg)
        first == authors[1]
        s == authors[2]
        author_str ==
            IF authors = <<>> THEN <<"U","n","k","n","o","w","n">>
            ELSE StripSet(Get(first, "family", <<"?">>) \o <<","," ">> \o Get(first, "given", <<>>),
                          {",", " "})
                 \o (IF Len(authors) = 2
                     THEN Strip(<<","," ","a","n","d"," ">> \o InitialsOf(Words(Get(s, "given", <<>>)))
                                \o <<" ">> \o Get(s, "family", <<"?">>))
                     ELSE IF Len(authors) > 2 THEN <<","," ","e","t"," ","a","l",".">>
                     ELSE <<>>)
        vol == get_volume(msg)
        issue == get_issue(msg)
        pages == get_pages(msg)
        sp == <<get_journal(msg)>>
              \o (IF vol # <<>> THEN <<<<"v","o","l","."," ">> \o vol>> ELSE <<>>)
              \o (IF issue # <<>> THEN <<<<"n","o","."," ">> \o issue>> ELSE <<>>)
              \o <<get_year(msg)>>
              \o (IF pages # <<>> THEN <<<<"p","p","."," ">> \o pages>> ELSE <<>>)
    IN  Str(idx) \o <<"."," ">> \o author_str \o <<".", " ", "\"">> \o get_title(msg)
        \o <<".", "\"", " ">> \o Join(<<","," ">>, sp) \o <<","," ">> \o DoiUrl \o raw_doi \o <<".">>

\* the author list of Chicago and Harvard: up to three names, then et al.
ThreeThenEtAl(names, lastSep, etal) ==
    IF Len(names) = 0 THEN <<"U","n","k","n","o","w","n">>
    ELSE IF Len(names) = 1 THEN names[1]
    ELSE IF Len(names) <= 3
    THEN Join(<<","," ">>, SubSeq(names, 1, Len(names) - 1)) \o lastSep \o names[Len(names)]
    ELSE names[1] \o etal

fmt_chicago(msg, raw_doi, idx) ==
    LET authors == ThreeThenEtAl(get_full_names_last_first(get_authors(msg)),
                                 <<","," ","a","n","d"," ">>, <<","," ","e","t"," ","a","l",".">>)
        vol == get_volume(msg)
        issue == get_issue(msg)
        pages == get_pages(msg)
        source == get_journal(msg)
                  \o (IF vol # <<>> THEN <<" ">> \o vol ELSE <<>>)
                  \o (IF issue # <<>> THEN <<" ","(">> \o issue \o <<")">> ELSE <<>>)
                  \o (IF pages # <<>> THEN <<":"," ">> \o pages ELSE <<>>)
    IN  Str(idx) \o <<"."," ">> \o authors \o <<"."," ">> \o get_year(msg) \o <<".", " ", "\"">>
        \o get_title(msg) \o <<".", "\"", " ">> \o source \o <<"."," ">> \o DoiUrl \o raw_doi \o <<".">>

fmt_harvard(msg, raw_doi, idx) ==
    LET authors == ThreeThenEtAl(get_full_names_last_first(get_authors(msg)),
                                 <<" ","a","n","d"," ">>, <<" ","e","t"," ","a","l",".">>)
        vol == get_volume(msg)
        issue == get_issue(msg)
        pages == get_pages(msg)
        source == <<"*">> \o get_journal(msg) \o <<"*">>
                  \o (IF vol # <<>> THEN <<","," ">> \o vol ELSE <<>>)
                  \o (IF issue # <<>> THEN <<"(">> \o issue \o <<")">> ELSE <<>>)
                  \o (IF pages # <<>> THEN <<","," ","p","p","."," ">> \o pages ELSE <<>>)
    IN  Str(idx) \o <<"."," ">> \o authors \o <<" ","(">> \o get_year(msg) \o <<")"," ","'">> \o get_title(msg)
        \o <<"'",","," ">> \o source \o <<"."," ","d","o","i",":"," ">> \o DoiUrl \o raw_doi \o <<".">>

\* a variant that prints the year plain and the volume in bold
fmt_acs_boldVolume(msg, raw_doi, idx) ==
    LET names == get_full_names_last_first(get_authors(msg))
        authors ==
            IF Len(names) = 0 THEN <<"U","n","k","n","o","w","n">>
            ELSE IF Len(names) = 1 THEN names[1]
            ELSE Join(<<";"," ">>, names)
        vol == get_volume(msg)
        issue == get_issue(msg)
        pages == get_pages(msg)
        source == <<"*">> \o get_journal(msg) \o <<"*">>
                  \o (IF vol # <<>>
                      THEN <<" ">> \o get_year(msg) \o <<","," ","*","*">> \o vol \o <<"*","*">>
                           \o (IF issue # <<>> THEN <<" ","(">> \o issue \o <<")">> ELSE <<>>)
                           \o (IF pages # <<>> THEN <<","," ">> \o pages ELSE <<>>)
                      ELSE <<" ">> \o get_year(msg))
    IN  Str(idx) \o <<"."," ">> \o authors \o <<"."," ">> \o get_title(msg) \o <<"."," ">>
        \o source \o <<"."," ">> \o DoiUrl \o raw_doi \o <<".">>

fmt_acs(msg, raw_doi, idx) ==
    LET names == get_full_names_last_first(get_authors(msg))
        authors ==
            IF Len(names) = 0 THEN <<"U","n","k","n","o","w","n">>
            ELSE IF Len(names) = 1 THEN names[1]
            ELSE Join(<<";"," ">>, names)
        vol == get_volume(msg)
        issue == get_issue(msg)
        pages == get_pages(msg)
        source == <<"*">> \o get_journal(msg) \o <<"*">>
                  \o (IF vol # <<>>
                      THEN <<" ","*","*">> \o get_year(msg) \o <<"*","*",","," ","*">> \o vol \o <<"*">>
                           \o (IF issue # <<>> THEN <<" ","(">> \o issue \o <<")">> ELSE <<>>)
                           \o (IF pages # <<>> THEN <<","," ">> \o pages ELSE <<>>)
                      ELSE <<" ">> \o get_year(msg))
    IN  Str(idx) \o <<"."," ">> \o authors \o <<"."," ">> \o get_title(msg) \o <<"."," ">>
        \o source \o <<"."," ">> \o DoiUrl \o raw_doi \o <<".">>

fmt_nature(msg, raw_doi, idx) ==
    LET names == get_full_names_first_last(get_authors(msg))
        authors ==
            IF Len(names) = 0 THEN <<"U","n","k","n","o","w","n">>
            ELSE IF Len(names) <= 5 THEN Join(<<","," ">>, names)
            ELSE Join(<<","," ">>, SubSeq(names, 1, 5)) \o <<" ","e","t"," ","a","l",".">>
        vol == get_volume(msg)
        pages == get_pages(msg)
        source == <<"*">> \o get_journal(msg) \o <<"*">>
                  \o (IF vol # <<>> THEN <<" ","*","*">> \o vol \o <<"*","*">> ELSE <<>>)
                  \o (IF pages # <<>> THEN <<","," ">> \o pages ELSE <<>>)
    IN  Str(idx) \o <<"."," ">> \o authors \o <<"."," ">> \o get_title(msg) \o <<"."," ">>
        \o source \o <<" ","(">> \o get_year(msg) \o <<")","."," ">> \o DoiUrl \o raw_doi

-----------------------------------------------------------------------------
(* The formatters driven on records built field by field.                  *)

MaxAuthors == 7

S_DeepLearning == <<"D","e","e","p"," ","l","e","a","r","n","i","n","g">>
S_TestDoi == <<"1","0",".","1","/","x">>

\* the record of the APA example, before its authors are added
RecNature ==
    ("title" :> <<S_DeepLearning>>) @@ ("container-title" :> <<<<"N","a","t","u","r","e">>>>)
    @@ ("volume" :> <<"5","0","0">>) @@ ("issue" :> <<"7","4","6","1">>) @@ ("page" :> <<"1","2","3","-","1","2","6">>)
    @@ ("published" :> ("date-parts" :> <<<<2015>>>>))

\* a record with a publisher and pages but no container title and no volume
RecBook ==
    ("title" :> <<<<"O","n"," ","b","o","o","k","s">>>>) @@ ("publisher" :> <<"M","I","T"," ","P","r","e","s","s">>)
    @@ ("page" :> <<"7","-","9">>) @@ ("published" :> ("date-parts" :> <<<<>>>>))
    @@ ("issued" :> ("date-parts" :> <<<<1999, 4>>>>))

\* a record with no field at all
RecEmpty == <<>>

\* a record whose fields are there and hold nothing: no title, no container
\* title, a null year, and author entries with no family name, no given
\* name, or neither
RecHollow ==
    ("title" :> <<>>) @@ ("container-title" :> <<>>) @@ ("volume" :> <<"7">>)
    @@ ("issued" :> ("date-parts" :> <<<<0>>>>))
    @@ ("author" :> << <<>>, ("given" :> <<"A","n","n"," ","B">>) >>)

RecordVocab == {RecNature, RecBook, RecEmpty, RecHollow}

\* the author entries a record is given, in this order
AuthorPool == <<
    ("family" :> <<"H","i","n","t","o","n">>) @@ ("given" :> <<"G","e","o","f","f","r","e","y"," ","E">>),
    ("family" :> <<"D","o","e">>) @@ ("given" :> <<"J","o","n"," ","A","n","d","r","e","w">>),
    ("family" :> <<"R","o","e">>) @@ ("given" :> <<"A","n","n">>),
    ("family" :> <<"L","i">>),
    ("name" :> <<"C","E","R","N">>),
    ("family" :> <<"K","i","m">>) @@ ("given" :> <<"S","u">>),
    ("family" :> <<"N","g">>) @@ ("given" :> <<"B","o">>),
    ("family" :> <<"W","u">>) @@ ("given" :> <<"C","y">>),
    ("family" :> <<"X","u">>) >>

Ordinals == {1, 12}

Styles == {"plain", "apa", "mla", "chicago", "vancouver", "harvard", "ieee", "ama", "acs", "nature"}

\* FORMATS: the formatter registered under a style
Formatter(f, m, raw_doi, idx) ==
    CASE f = "plain" -> fmt_plain(m, raw_doi, idx)
      [] f = "apa" -> fmt_apa(m, raw_doi, idx)
      [] f = "mla" -> fmt_mla(m, raw_doi, idx)
      [] f = "chicago" -> fmt_chicago(m, raw_doi, idx)
      [] f = "vancouver" -> fmt_vancouver(m, raw_doi, idx)
      [] f = "harvard" -> fmt_harvard(m, raw_doi, idx)
      [] f = "ieee" -> fmt_ieee(m, raw_doi, idx)
      [] f = "ama" -> fmt_ama(m, raw_doi, idx)
      [] f = "acs" -> fmt_acs(m, raw_doi, idx)
      [] f = "nature" -> fmt_nature(m, raw_doi, idx)

\* the record has one more author entry
AddAuthor ==
    /\ fpc = "build"
    /\ Len(get_authors(rec)) < MaxAuthors
    /\ Len(get_authors(rec)) < Len(AuthorPool)
    /\ rec' = ("author" :> Append(get_authors(rec), AuthorPool[Len(get_authors(rec)) + 1])) @@ rec
    /\ UNCHANGED <<rawDoi, ordinal, style, out, fpc, notFormatVars>>

\* formatter(msg, raw_doi, idx)
Format(f, idx) ==
    /\ fpc = "build"
    /\ out' = Formatter(f, rec, rawDoi, idx)
    /\ style' = f
    /\ ordinal' = idx
    /\ fpc' = "done"
    /\ UNCHANGED <<rec, rawDoi, notFormatVars>>

FormatNext ==
    \/ AddAuthor
    \/ \E f \in Styles, idx \in Ordinals : Format(f, idx)

-----------------------------------------------------------------------------
(* Claims about the formatters, checked under SpecFormat.                  *)

ApaExampleCall ==
    /\ fpc = "done" /\ style = "apa" /\ ordinal = 1 /\ rawDoi = S_TestDoi
    /\ rec = ("author" :> <<AuthorPool[1]>>) @@ RecNature

\* C6 as stated: the APA example with the single author Hinton, Geoffrey E
\* gives exactly "1. Hinton, G. (2015). <title>. Nature, 500(7461), 123-126.
\* https://doi.org/10.1/x".
C6_ApaExampleOneInitial ==
    ApaExampleCall =>
        out = <<"1","."," ","H","i","n","t","o","n",","," ","G","."," ","(","2","0","1","5",")","."," ">> \o S_DeepLearning
              \o <<"."," ","N","a","t","u","r","e",","," ","5","0","0","(","7","4","6","1",")",","," ","1","2","3","-","1","2","6","."," ","h","t","t","p","s",":","/","/","d","o","i",".","o","r","g","/","1","0",".","1","/","x">>

\* C6 amended: the same call gives exactly "1. Hinton, G.E. (2015). <title>.
\* Nature, 500(7461), 123-126. https://doi.org/10.1/x": one initial per
\* given-name token, joined without a space.
C6_ApaExampleAllInitials ==
    ApaExampleCall =>
        out = <<"1","."," ","H","i","n","t","o","n",","," ","G",".","E","."," ","(","2","0","1","5",")","."," ">> \o S_DeepLearning
              \o <<"."," ","N","a","t","u","r","e",","," ","5","0","0","(","7","4","6","1",")",","," ","1","2","3","-","1","2","6","."," ","h","t","t","p","s",":","/","/","d","o","i",".","o","r","g","/","1","0",".","1","/","x">>

C6_Witness == ApaExampleCall /\ Contains(out, <<"H","i","n","t","o","n",","," ","G",".","E","."," ","(","2","0","1","5",")">>)

\* C8: under Vancouver, IEEE and AMA six authors are rendered as the full
\* comma-separated list with no "et al."; seven or more are rendered as the
\* first six names followed by "et al.", and no later name appears.
C8_SixFullSevenEtAl ==
    (fpc = "done" /\ style \in {"vancouver", "ieee", "ama"}) =>
        LET authors == get_authors(rec)
            n == Len(authors)
            names == IF style = "ieee" THEN get_full_names_first_last(authors)
                     ELSE get_full_names_last_first(authors)
            lead == IF style = "ieee" THEN <<"[">> \o Str(ordinal) \o <<"]"," ">>
                    ELSE Str(ordinal) \o <<"."," ">>
            close == IF style = "ieee" THEN <<",", " ", "\"">> ELSE <<"."," ">>
            six == lead \o Join(<<","," ">>, SubSeq(names, 1, 6))
        IN  /\ n = 6 => /\ StartsWith(out, six \o close)
                        /\ ~Contains(out, <<"e","t"," ","a","l",".">>)
            /\ n >= 7 => /\ \/ StartsWith(out, six \o <<","," ","e","t"," ","a","l",".">> \o close)
                            \/ StartsWith(out, six \o <<" ","e","t"," ","a","l",".">> \o close)
                         /\ \A k \in 7..n : ~Contains(out, names[k])

C8_Witness ==
    /\ fpc = "done" /\ style = "ieee" /\ Len(get_authors(rec)) = 7
    /\ Contains(out, <<"S","."," ","K","i","m"," ","e","t"," ","a","l",".">>)

NoAuthors == get_authors(rec) = <<>>
NoTitle == Get(rec, "title", <<>>) = <<>>
NoYear == \A i \in 1..Len(DateFields) : ~HasYear(rec, DateFields[i])

\* C19 as stated: every formatter returns a string for every record, with
\* "Unknown" for an empty author list, "Untitled" for a missing title and
\* "n.d." for a missing year.
C19_PlaceholdersInAllTen ==
    fpc = "done" =>
        /\ out # <<>>
        /\ NoAuthors => Contains(out, <<"U","n","k","n","o","w","n">>)
        /\ NoTitle => Contains(out, <<"U","n","t","i","t","l","e","d">>)
        /\ NoYear => Contains(out, <<"n",".","d",".">>)

\* C19, amended: every formatter returns a string for every record, with
\* "Unknown" for an empty author list and "n.d." for a missing year; nine
\* of them give "Untitled" for a missing title, and fmt_plain, which prints
\* no title, gives none.
C19_PlaceholdersWhereShown ==
    fpc = "done" =>
        /\ out # <<>>
        /\ Contains(out, Str(ordinal))
        /\ NoAuthors => Contains(out, <<"U","n","k","n","o","w","n">>)
        /\ NoTitle => (Contains(out, <<"U","n","t","i","t","l","e","d">>) <=> style # "plain")
        /\ NoYear => Contains(out, <<"n",".","d",".">>)

C19_Witness ==
    /\ fpc = "done" /\ style = "mla" /\ rec = RecHollow
    /\ Contains(out, <<"U","n","t","i","t","l","e","d">>) /\ Contains(out, <<"n",".","d",".">>) /\ Contains(out, <<"?",","," ","a","n","d"," ","A",".","B","."," ","?">>)

\* the styles that print "Family, Initials" and those that print
\* "Initials Family"
LastFirstStyles == {"apa", "chicago", "vancouver", "harvard", "ama", "acs"}
FirstLastStyles == {"ieee", "nature"}

\* the first letter of each given-name token followed by a period, the
\* tokens' initials separated by sep
InitialsJoined(given, sep) ==
    Join(sep, [i \in 1..Len(Words(given)) |-> <<Words(given)[i][1], ".">>])

\* the author form of a style for an entry with a family and a given name
NameForm(a, f, sep) ==
    IF f \in LastFirstStyles
    THEN a["family"] \o <<","," ">> \o InitialsJoined(a["given"], sep)
    ELSE InitialsJoined(a["given"], sep) \o <<" ">> \o a["family"]

\* the authors of a formatted record that every style prints in full: those
\* with a family and a given name, in a list of at most three
NamedAuthors ==
    IF Len(get_authors(rec)) > 3 THEN {}
    ELSE {k \in 1..Len(get_authors(rec)) :
              {"family", "given"} \subseteq DOMAIN get_authors(rec)[k]}

\* C24 as stated: the initials of the "Family, Initials" and "Initials Family"
\* forms are the first letter of each given-name token followed by a period,
\* joined by a space when there are several ("Jon Andrew" gives "J. A.").
C24_InitialsSpaceJoined ==
    (fpc = "done" /\ style \in LastFirstStyles \cup FirstLastStyles) =>
        \A k \in NamedAuthors :
            Contains(out, NameForm(get_authors(rec)[k], style, <<" ">>))

\* C24 amended: the initials are the first letter of each given-name token
\* followed by a period, joined with nothing between them ("Jon Andrew" gives
\* "J.A."); the space-joined form "J. A." is never printed.
C24_InitialsJoinedWithoutSpace ==
    (fpc = "done" /\ style \in LastFirstStyles \cup FirstLastStyles) =>
        \A k \in NamedAuthors :
            LET a == get_authors(rec)[k]
            IN  /\ Contains(out, NameForm(a, style, <<>>))
                /\ Len(Words(a["given"])) > 1 =>
                       ~Contains(out, InitialsJoined(a["given"], <<" ">>))

C24_Witness ==
    /\ fpc = "done" /\ style = "ieee"
    /\ get_authors(rec) = SubSeq(AuthorPool, 1, 2)
    /\ Contains(out, <<"G",".","E","."," ","H","i","n","t","o","n",","," ","J",".","A","."," ","D","o","e">>)

\* the styles whose formatter emits an italic marker
ItalicStyles == {"harvard", "ieee", "acs", "nature"}

\* a formatted record with a journal name
FormattedWithJournal == fpc = "done" /\ get_journal(rec) # <<>>

\* the number of marker characters in a string
Stars(s) == Len(SelectSeq(s, LAMBDA ch : ch = "*"))

Italic(t) == <<"*">> \o t \o <<"*">>
Bold(t) == <<"*","*">> \o t \o <<"*","*">>

-----------------------------------------------------------------------------
(* SMART AUTHOR HIGHLIGHT: matching a query against an author entry.        *)

\* a variant without the length guard
SubstringMatch_noGuard(family, q) == Contains(family, q)

\* len(q) >= 3 and q in family
SubstringMatch(family, q) == Len(q) >= 3 /\ Contains(family, q)

\* _author_matches_query(author_dict, query)
author_matches_query(author_dict, q0) ==
    LET family == Strip(Lower(Get(author_dict, "family", <<>>)))
        given == Strip(Lower(Get(author_dict, "given", <<>>)))
        full == Strip(given \o <<" ">> \o family)
        name_parts == Words(given)
        initials == IF given # <<>>
                    THEN [i \in 1..Len(name_parts) |-> name_parts[i][1]]
                    ELSE <<>>
        q == Lower(Strip(q0))
        first_given == IF name_parts # <<>> THEN name_parts[1] ELSE <<>>
    IN  \/ q = family
        \/ q = given
        \/ q = full
        \/ q = family \o <<","," ">> \o given
        \/ q = Strip(given \o <<" ">> \o family)
        \/ q = Strip(first_given \o <<" ">> \o family)
        \/ q = Strip(family \o <<","," ">> \o first_given)
        \/ q = family \o <<" ">> \o initials
        \/ q = initials \o <<" ">> \o family
        \/ q = family \o <<","," ">> \o initials
        \/ StartsWith(family, q)
        \/ SubstringMatch(family, q)
        \/ (Len(q) >= 3 /\ q = first_given)

A_Doe == ("family" :> <<"D","o","e">>) @@ ("given" :> <<"J","o","n"," ","A","n","d","r","e","w">>)

\* the twelve queries of the matching example
Q_doe == <<"d","o","e">>
Q_oe == <<"o","e">>
ExampleQueries == {
    Q_doe, <<"j","o","n"," ","a","n","d","r","e","w">>, <<"j","o","n"," ","a","n","d","r","e","w"," ","d","o","e">>, <<"d","o","e",","," ","j","o","n"," ","a","n","d","r","e","w">>,
    <<"j","o","n"," ","d","o","e">>, <<"d","o","e",","," ","j","o","n">>, <<"d","o","e"," ","j","a">>, <<"j","a"," ","d","o","e">>, <<"d","o","e",","," ","j","a">>,
    <<"d","o">>, Q_oe, <<"j","o","n">> }

\* names a user may enter: the examples and some others, as typed
QueryVocab == ExampleQueries \cup { <<"D","o","e"," ">>, <<"n","t","o">>, <<"h","i","n","t","o","n"," ","g">>, <<"a","n","d","r","e","w">>, <<"c","e","r","n">>, <<"J","."," ","D","o","e">> }

AuthorVocab == Range(AuthorPool)

\* main: a non-empty author name is entered
EnterQuery(q) ==
    /\ mpc = "input"
    /\ Strip(q) # <<>>
    /\ query' = Lower(Strip(q))
    /\ mpc' = "entered"
    /\ UNCHANGED <<author, matched, notMatchVars>>

\* _build_highlight_targets: the query is tested against the author
Match ==
    /\ mpc = "entered"
    /\ matched' = author_matches_query(author, query)
    /\ mpc' = "done"
    /\ UNCHANGED <<author, query, notMatchVars>>

MatchNext ==
    \/ \E q \in QueryVocab : EnterQuery(q)
    \/ Match

-----------------------------------------------------------------------------
(* Claims about query matching, checked under SpecMatch.                   *)

DoeMatched == mpc = "done" /\ author = A_Doe

-----------------------------------------------------------------------------
(* SMART AUTHOR HIGHLIGHT: wrapping the targets in a citation string.       *)

\* str.count(sub): occurrences that do not overlap, for a non-empty sub
RECURSIVE CountFrom(_, _, _)
CountFrom(s, sub, i) ==
    LET hits == {k \in i..(Len(s) - Len(sub) + 1) : SubSeq(s, k, k + Len(sub) - 1) = sub}
    IN  IF hits = {} THEN 0
        ELSE 1 + CountFrom(s, sub, (CHOOSE k \in hits : \A j \in hits : k <= j) + Len(sub))

Count(s, sub) == CountFrom(s, sub, 1)

\* (?<![A-Za-z.'])(target)(?![A-Za-z]) with IGNORECASE matches text at i
TargetAt(text, target, i) ==
    LET e == i + Len(target) - 1
    IN  /\ e <= Len(text)
        /\ Lower(SubSeq(text, i, e)) = Lower(target)
        /\ (i = 1 \/ ~(IsAlpha(text[i - 1]) \/ text[i - 1] \in {".", "'"}))
        /\ (e = Len(text) \/ ~IsAlpha(text[e + 1]))

\* the finditer loop for one target: the rest of result from position i on,
\* pos being the end of the previous match
RECURSIVE WrapFrom(_, _, _, _, _, _)
WrapFrom(text, target, open_tag, close_tag, i, pos) ==
    LET hits == {k \in i..(Len(text) - Len(target) + 1) : TargetAt(text, target, k)}
    IN  IF hits = {} THEN SubSeq(text, pos, Len(text))
        ELSE LET m == CHOOSE k \in hits : \A j \in hits : k <= j
                 e == m + Len(target) - 1
                 before == SubSeq(text, pos, m - 1)
             IN  (IF Count(before, open_tag) > Count(before, close_tag)
                  THEN SubSeq(text, pos, e)
                  ELSE before \o open_tag \o SubSeq(text, m, e) \o close_tag)
                 \o WrapFrom(text, target, open_tag, close_tag, e + 1, e + 1)

\* _apply_highlight(text, targets, open_tag, close_tag)
RECURSIVE apply_highlight(_, _, _, _)
apply_highlight(text, tgts, open_tag, close_tag) ==
    IF tgts = <<>> THEN text
    ELSE apply_highlight(WrapFrom(text, Head(tgts), open_tag, close_tag, 1, 1),
                         Tail(tgts), open_tag, close_tag)

MdBold == [open |-> <<"*","*">>, close |-> <<"*","*">>]
HtmlBold == [open |-> <<"<","s","t","r","o","n","g",">">>, close |-> <<"<","/","s","t","r","o","n","g",">">>]
PdfBold == [open |-> <<"<","b",">">>, close |-> <<"<","/","b",">">>]

\* _apply_author_highlight_md, _html and _pdf
TagPairs == {MdBold, HtmlBold, PdfBold}

MaxPasses == 2

S_Doe == <<"D","o","e">>

\* formatted citations, as the formatters return them
TextVocab == {
    S_Doe,
    <<"1","."," ","D","o","e",","," ","J",".","A","."," ","(","2","0","1","5",")","."," ","D","e","e","p"," ","l","e","a","r","n","i","n","g","."," ","N","a","t","u","r","e",".">>,
    <<"[","1","]"," ","J",".","A","."," ","D","o","e",","," ","A","."," ","R","o","e",","," ","\"","O","n"," ","D","o","e","'","s"," ","l","a","w",",","\""," ","*","N","a","t","u","r","e","*",".">>,
    <<"2","."," ","A","."," ","R","o","e","."," ","T","i","t","l","e","."," ","*","N","a","t","u","r","e","*"," ","*","*","5","0","0","*","*",","," ","7","-","9"," ","(","1","9","9","9",")",".">>,
    <<"1","."," ","D","o","i","."," ","L","a","w","."," ","*","N","a","t","u","r","e","*"," ","*","*","5","*","*","."," ","h","t","t","p","s",":","/","/","d","o","i",".","o","r","g","/","1","0",".","1","/","x">> }

\* target lists as _build_highlight_targets returns them: longest first
TargetVocab == {
    <<>>,
    <<S_Doe>>,
    <<<<"D","o","e",","," ","J",".","A",".">>, <<"J",".","A","."," ","D","o","e">>, S_Doe>>,
    <<<<"R","o","e",","," ","A",".">>, <<"A","."," ","R","o","e">>, <<"R","o","e">>>>,
    <<<<"D","o","i">>>> }

\* a renderer applies the highlight to the text it holds
Highlight ==
    /\ hpc = "run"
    /\ Len(htext) <= MaxPasses
    /\ htext' = Append(htext, apply_highlight(htext[Len(htext)], targets,
                                              tagPair.open, tagPair.close))
    /\ UNCHANGED <<targets, tagPair, hpc, notHighlightVars>>

-----------------------------------------------------------------------------
(* Claims about highlighting, checked under SpecHighlight.                 *)

\* no target stands in the original text as literal bold text
NoTargetAlreadyBold ==
    \A k \in 1..Len(targets) :
        ~Contains(Lower(htext[1]), Lower(<<"*","*">> \o targets[k] \o <<"*","*">>))

\* C9: with the markdown pair, for a text in which no target is already bold,
\* applying the highlight twice gives the same string as applying it once.
C9_MdHighlightIdempotent ==
    (hpc = "run" /\ tagPair = MdBold /\ Len(htext) >= 3 /\ NoTargetAlreadyBold)
        => htext[3] = htext[2]

\* the position of the first occurrence of sub in s from i on, 0 if none
FindFrom(s, sub, i) ==
    LET hits == {k \in i..(Len(s) - Len(sub) + 1) : SubSeq(s, k, k + Len(sub) - 1) = sub}
    IN  IF hits = {} THEN 0 ELSE CHOOSE k \in hits : \A j \in hits : k <= j

\* the text from i on is flat: each opening tag is followed by one target
\* and the closing tag, and no closing tag stands alone
RECURSIVE FlatFrom(_, _, _, _, _)
FlatFrom(s, tgts, open_tag, close_tag, i) ==
    LET o == FindFrom(s, open_tag, i)
        c == IF o = 0 THEN 0 ELSE FindFrom(s, close_tag, o + Len(open_tag))
    IN  IF o = 0 THEN FindFrom(s, close_tag, i) = 0
        ELSE /\ FindFrom(SubSeq(s, 1, o - 1), close_tag, i) = 0
             /\ c # 0
             /\ \E k \in 1..Len(tgts) :
                    Lower(SubSeq(s, o + Len(open_tag), c - 1)) = Lower(tgts[k])
             /\ FlatFrom(s, tgts, open_tag, close_tag, c + Len(close_tag))

\* the text highlighted carried no tag of the pair before
PlainAtFirst ==
    /\ ~Contains(htext[1], tagPair.open)
    /\ ~Contains(htext[1], tagPair.close)

\* C20: with each of the three tag pairs, highlighting a text that has no
\* tag yet never nests or doubles the tags: every opening tag is followed
\* by exactly one target and its closing tag, so a shorter variant inside a
\* longer one that was just wrapped stays unwrapped.
C20_NoNestedTags ==
    (hpc = "run" /\ PlainAtFirst)
        => \A k \in 2..Len(htext) :
               FlatFrom(htext[k], targets, tagPair.open, tagPair.close, 1)

-----------------------------------------------------------------------------
(* OUTPUT RENDERERS: the HTML markup of a citation and its highlighting.    *)

HtmlEscapeChar(c) ==
    CASE c = "&" -> <<"&","a","m","p",";">>
      [] c = "<" -> <<"&","l","t",";">>
      [] c = ">" -> <<"&","g","t",";">>
      [] c = "\"" -> <<"&","q","u","o","t",";">>
      [] c = "'" -> <<"&","#","x","2","7",";">>
      [] OTHER -> <<c>>

\* html.escape
RECURSIVE HtmlEscape(_)
HtmlEscape(text) ==
    IF text = <<>> THEN <<>>
    ELSE IF Len(text) = 1 THEN HtmlEscapeChar(text[1])
    ELSE HtmlEscape(SubSeq(text, 1, Len(text) \div 2))
         \o HtmlEscape(SubSeq(text, Len(text) \div 2 + 1, Len(text)))

\* re.sub(marker (.*?) marker, open \1 close, text) from position i on
RECURSIVE SubMarked(_, _, _, _, _)
SubMarked(text, marker, open_tag, close_tag, i) ==
    LET o == FindFrom(text, marker, i)
        c == IF o = 0 THEN 0 ELSE FindFrom(text, marker, o + Len(marker))
    IN  IF o = 0 \/ c = 0 THEN SubSeq(text, i, Len(text))
        ELSE SubSeq(text, i, o - 1) \o open_tag \o SubSeq(text, o + Len(marker), c - 1)
             \o close_tag \o SubMarked(text, marker, open_tag, close_tag, c + Len(marker))

\* [^\s<>"]
IsUrlChar(c) == c \notin {" ", "<", ">", "\""}

\* [.,:;!?)\]]*(?=\s|$|<) at position i: the position after the punctuation,
\* 0 if what follows is neither a blank, the end, nor a tag
RECURSIVE UrlTail(_, _)
UrlTail(text, i) ==
    IF i > Len(text) THEN i
    ELSE IF text[i] \in {".", ",", ":", ";", "!", "?", ")", "]"}
         THEN (IF UrlTail(text, i + 1) # 0 THEN UrlTail(text, i + 1)
               ELSE 0)
    ELSE IF text[i] \in {" ", "<"} THEN i
    ELSE 0

\* the lazy group 1 that starts at s and has reached e: its end, 0 if none
RECURSIVE UrlEnd(_, _, _)
UrlEnd(text, s, e) ==
    IF e > Len(text) \/ ~IsUrlChar(text[e]) THEN 0
    ELSE IF e >= s /\ UrlTail(text, e + 1) # 0 THEN e
    ELSE UrlEnd(text, s, e + 1)

\* the length of https?:// at position i, 0 if it does not stand there
SchemeAt(text, i) ==
    IF i + 6 <= Len(text) /\ SubSeq(text, i, i + 6) = <<"h","t","t","p",":","/","/">> THEN 7
    ELSE IF i + 7 <= Len(text) /\ SubSeq(text, i, i + 7) = <<"h","t","t","p","s",":","/","/">> THEN 8
    ELSE 0

\* the URL substitution of _html_markup from position i on
RECURSIVE Linkify(_, _)
Linkify(text, i) ==
    LET hits == {k \in i..Len(text) :
                    /\ SchemeAt(text, k) # 0
                    /\ UrlEnd(text, k + SchemeAt(text, k), k + SchemeAt(text, k)) # 0}
    IN  IF hits = {} THEN SubSeq(text, i, Len(text))
        ELSE LET m == CHOOSE k \in hits : \A j \in hits : k <= j
                 n == SchemeAt(text, m)
                 e == UrlEnd(text, m + n, m + n)
             IN  SubSeq(text, i, m - 1)
                 \o <<"<","a"," ","h","r","e","f","=","\"">> \o SubSeq(text, m, e) \o <<"\"",">">> \o SubSeq(text, m, e)
                 \o <<"<","/","a",">">> \o SubSeq(text, e + 1, UrlTail(text, e + 1) - 1)
                 \o Linkify(text, UrlTail(text, e + 1))

html_markup(text) ==
    Linkify(SubMarked(SubMarked(HtmlEscape(text), <<"*","*">>, <<"<","s","t","r","o","n","g",">">>, <<"<","/","s","t","r","o","n","g",">">>, 1),
                      <<"*">>, <<"<","e","m",">">>, <<"<","/","e","m",">">>, 1), 1)

\* render_html._render_entry: the entry, its markup, its highlighted markup
RenderEntry ==
    /\ hpc = "run"
    /\ Len(htext) = 1
    /\ htext' = <<htext[1], html_markup(htext[1]),
                  apply_highlight(html_markup(htext[1]), targets, HtmlBold.open, HtmlBold.close)>>
    /\ hpc' = "html"
    /\ UNCHANGED <<targets, tagPair, notHighlightVars>>

HighlightNext ==
    \/ Highlight
    \/ RenderEntry

-----------------------------------------------------------------------------
(* Claims about the HTML rendering, checked under SpecHighlight.           *)

\* the anchor _html_markup makes of a URL
AnchorOf(u) == <<"<","a"," ","h","r","e","f","=">> \o <<"\"">> \o u \o <<"\"", ">">> \o u \o <<"<","/","a",">">>

S_Url == DoiUrl \o S_TestDoi

\* C21: highlighting the output of _html_markup leaves the markup whole:
\* the anchor of the citation's URL and every generated <em> and <strong>
\* tag stand in the highlighted text as they stood before, for any target
\* list.
C21_MarkupSurvives ==
    hpc = "html" =>
        /\ Contains(htext[2], AnchorOf(S_Url)) => Contains(htext[3], AnchorOf(S_Url))
        /\ ~Contains(htext[3], <<"<","<">>)
        /\ Count(htext[3], <<"<","e","m",">">>) = Count(htext[2], <<"<","e","m",">">>)

-----------------------------------------------------------------------------
(* The metadata service as the GUI pipeline reaches it.                     *)

D_a == <<"1","0",".","1","0","0","0","/","a">>
D_A == <<"1","0",".","1","0","0","0","/","A">>
D_b == <<"1","0",".","2","0","0","0","/","b">>
D_d == <<"1","0",".","4","0","0","0","/","d">>

T_Deep == <<"D","e","e","p">>
T_Attention == <<"A","t","t","e","n","t","i","o","n">>
T_Bert == <<"B","e","r","t">>

\* the DOIs the service holds a work for, lower-cased
ServiceWorks == {D_a, D_b, D_d}

\* the message of GET works/<doi>: the full record
Work(doi) == ("DOI" :> Lower(doi)) @@ ("title" :> <<Lower(doi)>>) @@ ("volume" :> <<"1">>)

\* an item of GET works?query...: the selected fields only
Candidate(doi) == ("DOI" :> doi) @@ ("title" :> <<Lower(doi)>>)

\* the items the service returns for a title query, best first
SearchIndex(title) ==
    IF title = T_Deep THEN <<Candidate(D_A)>>
    ELSE IF title = T_Attention THEN <<Candidate(D_a), Candidate(D_b)>>
    ELSE IF title = T_Bert THEN <<Candidate(D_b), Candidate(D_d)>>
    ELSE <<>>

\* a Python value that is neither None nor empty
Truthy(x) == x # None /\ x # <<>>

\* a dict that is neither None nor {}
TruthyDict(d) == DOMAIN d # {}

\* str.lstrip(chars)
RECURSIVE LStripSet(_, _)
LStripSet(s, cs) ==
    IF s # <<>> /\ s[1] \in cs THEN LStripSet(Tail(s), cs) ELSE s

\* fetch_by_doi: (msg, raw), msg empty when the lookup fails; up says
\* whether the network answers
fetch_by_doi(doi, up) ==
    LET raw == LStripSet(LStripSet(Strip(doi), Range(<<"h","t","t","p","s",":","/","/","d","o","i",".","o","r","g","/">>)),
                         Range(<<"h","t","t","p",":","/","/","d","x",".","d","o","i",".","o","r","g","/">>))
    IN  IF up /\ Lower(raw) \in ServiceWorks
        THEN [msg |-> Work(raw), raw |-> raw]
        ELSE [msg |-> <<>>, raw |-> raw]

\* search_crossref: the items, or [] on any error
search_crossref(query_params, up) ==
    IF up THEN SearchIndex(Get(query_params, "query.title", <<>>)) ELSE <<>>

build_query(inf) ==
    LET title   == IF Truthy(inf.title) THEN ("query.title" :> inf.title) ELSE <<>>
        auth    == IF Truthy(inf.author) THEN ("query.author" :> inf.author) ELSE <<>>
        journal == IF Truthy(inf.journal) THEN ("query.container-title" :> inf.journal) ELSE <<>>
        filter  == IF Truthy(inf.year)
                   THEN ("filter" :> (<<"f","r","o","m","-","p","u","b","-","d","a","t","e",":">> \o inf.year
                                      \o <<",","u","n","t","i","l","-","p","u","b","-","d","a","t","e",":">> \o inf.year))
                   ELSE <<>>
        params  == title @@ auth @@ journal @@ filter
    IN  IF DOMAIN params = {} THEN ("query.bibliographic" :> inf.raw) ELSE params

\* the cached wrappers with no cache configured: _cache_get answers None and
\* _cache_set stores nothing, so every call goes to the service
cached_fetch_by_doi(doi, up) == fetch_by_doi(doi, up)

cached_search_crossref(params, up) == search_crossref(params, up)

-----------------------------------------------------------------------------
(* The GUI pipeline: parsing the text area, the automatic pass, and the     *)
(* resolution of ambiguous lines.                                           *)

\* re.sub(r'https?://(?:dx[.])?doi[.]org/', '', s)
RECURSIVE RemoveResolvers(_)
RemoveResolvers(s) ==
    IF s = <<>> THEN <<>>
    ELSE IF \E r \in Resolvers : StartsWith(s, r)
         THEN RemoveResolvers(From(s, 1 + Len(CHOOSE r \in Resolvers : StartsWith(s, r))))
         ELSE <<s[1]>> \o RemoveResolvers(Tail(s))

\* re.sub(r'\s+', ' ', s)
RECURSIVE CollapseSpaces(_)
CollapseSpaces(s) ==
    IF Len(s) < 2 THEN s
    ELSE IF IsSpace(s[1]) /\ IsSpace(s[2]) THEN CollapseSpaces(Tail(s))
         ELSE <<s[1]>> \o CollapseSpaces(Tail(s))

normalise_key(l) ==
    LET bare  == RemoveResolvers(Lower(Strip(l)))
        sp    == [i \in 1..Len(bare) |->
                     IF bare[i] \in {"|", ".", ",", ";", ":", "-"} THEN " " ELSE bare[i]]
        words == SelectSeq(sp, LAMBDA c : IsWord(c) \/ IsSpace(c))
    IN  Strip(CollapseSpaces(words))

\* _parse_lines: the lines kept; the duplicates are only shown
RECURSIVE ParseFrom(_, _, _, _)
ParseFrom(raw, i, seen_keys, result) ==
    IF i > Len(raw) THEN result
    ELSE LET l == Strip(raw[i])
         IN  IF l = <<>> \/ StartsWith(l, <<"#">>)
             THEN ParseFrom(raw, i + 1, seen_keys, result)
             ELSE IF normalise_key(l) \in seen_keys
                  THEN ParseFrom(raw, i + 1, seen_keys, result)
                  ELSE ParseFrom(raw, i + 1, seen_keys \cup {normalise_key(l)},
                                 Append(result, l))

parse_lines(raw) == ParseFrom(raw, 1, {}, <<>>)

\* the items of the entries list. A citation stands for the tuple
\* (fmt_fn(msg, rd, idx), authors_meta): it keeps the arguments of the call.
NonePlaceholder == [tag |-> "None", text |-> <<>>, msg |-> <<>>, rd |-> <<>>, idx |-> 0]

ErrorEntry(prefix, ln) ==
    [tag |-> "error", text |-> prefix \o ln \o <<"]">>, msg |-> <<>>, rd |-> <<>>, idx |-> 0]

Citation(msg, rd, idx) ==
    [tag |-> "cite", text |-> <<>>, msg |-> msg, rd |-> rd, idx |-> idx]

P_DuplicateDoi == <<"[","D","u","p","l","i","c","a","t","e"," ","D","O","I",":"," ">>
P_CouldNot == <<"[","C","o","u","l","d"," ","n","o","t"," ","r","e","t","r","i","e","v","e",":"," ">>
P_NoResults == <<"[","N","o"," ","r","e","s","u","l","t","s"," ","f","o","u","n","d",":"," ">>
P_Duplicate == <<"[","D","u","p","l","i","c","a","t","e",":"," ">>
P_Skipped == <<"[","S","k","i","p","p","e","d",":"," ">>

\* _process_all_auto, the body of the loop for one line; st holds the locals
ProcessInfo(ln, r, st, up) ==
        IF r.raised THEN [st EXCEPT !.raised = TRUE]
        ELSE IF r.value.type = "doi"
        THEN LET f       == cached_fetch_by_doi(r.value.doi, up)
                 doi_key == Lower(Strip(f.raw))
                 st1     == [st EXCEPT !.lookups = Append(@, f.raw)]
             IN  IF TruthyDict(f.msg)
                 THEN IF doi_key \in DOMAIN st.seen_dois
                      THEN [st1 EXCEPT !.entries = Append(@, ErrorEntry(P_DuplicateDoi, ln))]
                      ELSE [st1 EXCEPT !.seen_dois = (doi_key :> ln) @@ @,
                                       !.entries = Append(@, Citation(f.msg, f.raw, st.idx)),
                                       !.idx = @ + 1]
                 ELSE [st1 EXCEPT !.entries = Append(@, ErrorEntry(P_CouldNot, ln))]
        ELSE LET candidates == cached_search_crossref(build_query(r.value), up)
             IN  IF candidates = <<>>
                 THEN [st EXCEPT !.entries = Append(@, ErrorEntry(P_NoResults, ln))]
                 ELSE IF Len(candidates) = 1
                 THEN LET c       == candidates[1]
                          raw_doi == Get(c, "DOI", <<>>)
                          doi_key == Lower(Strip(raw_doi))
                          f       == cached_fetch_by_doi(raw_doi, up)
                          m       == IF TruthyDict(f.msg) THEN f.msg ELSE c
                          rd      == IF f.raw # <<>> THEN f.raw ELSE raw_doi
                      IN  IF doi_key # <<>> /\ doi_key \in DOMAIN st.seen_dois
                          THEN [st EXCEPT !.entries = Append(@, ErrorEntry(P_Duplicate, ln))]
                          ELSE [st EXCEPT
                                  !.lookups = Append(@, f.raw),
                                  !.seen_dois = IF rd # <<>>
                                                THEN (Lower(Strip(rd)) :> ln) @@ @ ELSE @,
                                  !.entries = Append(@, Citation(m, rd, st.idx)),
                                  !.idx = @ + 1]
                 ELSE [st EXCEPT
                         !.ambiguous = Append(@, [line |-> ln, entry_idx |-> st.idx,
                                                  list_pos |-> Len(st.entries),
                                                  candidates |-> candidates]),
                         !.entries = Append(@, NonePlaceholder),
                         !.idx = @ + 1]

\* info = detect_input_type(line), then the branches on it
ProcessLine(ln, st, up) == ProcessInfo(ln, detect_input_type(ln), st, up)

RECURSIVE ProcessFrom(_, _, _, _)
ProcessFrom(lines, i, st, up) ==
    IF i > Len(lines) \/ st.raised THEN st
    ELSE ProcessFrom(lines, i + 1, ProcessLine(lines[i], st, up), up)

process_all_auto(lines, up) ==
    ProcessFrom(lines, 1, [entries |-> <<>>, ambiguous |-> <<>>, idx |-> 1,
                           seen_dois |-> <<>>, lookups |-> <<>>, raised |-> FALSE], up)

\* the ambiguous items whose placeholder is still None
Pending(ents, amb) == SelectSeq(amb, LAMBDA a : ents[a.list_pos + 1].tag = "None")

\* the AMBIGUOUS CANDIDATE RESOLUTION block of one script run in which no
\* button of the block was pressed: the value of done it leaves and the
\* exception it ends with
ResolutionStep(ents, amb, dn) ==
    IF amb # <<>> /\ ~dn
    THEN IF \E k \in 1..Len(amb) : amb[k].list_pos >= Len(ents)
         THEN [done |-> dn, err |-> "IndexError"]
         ELSE IF Pending(ents, amb) # <<>>
              THEN [done |-> dn, err |-> ""]
              ELSE [done |-> TRUE, err |-> ""]
    ELSE [done |-> dn, err |-> ""]

\* the block shows its buttons
ButtonsShown ==
    /\ gpc = "ready" /\ gerr = ""
    /\ ambiguous # <<>> /\ ~done
    /\ Pending(entries, ambiguous) # <<>>

\* the RESULTS block: what is rendered as the final list
AllResolved == done /\ entries # <<>>

real_entries == SelectSeq(entries, LAMBDA e : e.tag = "cite")

-----------------------------------------------------------------------------
(* The GUI session driven by the user.                                      *)

MaxLines == 3

MaxRuns == 2

\* lines a user types: a DOI the service holds, and titles with one and with
\* several search results; with the network down a lookup finds nothing
LineVocab == {D_a, T_Deep, T_Attention, T_Bert}

\* one more line is typed into the text area; the script reruns
TypeLine(l) ==
    /\ gpc = "ready"
    /\ runs = 0
    /\ Len(rawInput) < MaxLines
    /\ rawInput' = Append(rawInput, l)
    /\ LET step == ResolutionStep(entries, ambiguous, done)
       IN  done' = step.done /\ gerr' = step.err
    /\ UNCHANGED <<runs, entries, ambiguous, seen_dois, lookups, gpc, notGuiVars>>

\* the text area is emptied after a run; the script reruns
ClearInput ==
    /\ gpc = "ready"
    /\ runs > 0
    /\ rawInput # <<>>
    /\ rawInput' = <<>>
    /\ LET step == ResolutionStep(entries, ambiguous, done)
       IN  done' = step.done /\ gerr' = step.err
    /\ UNCHANGED <<runs, entries, ambiguous, seen_dois, lookups, gpc, notGuiVars>>

\* the RUN block from the assignment of the results on, then the rest of
\* the script
RunStore(st) ==
    IF st.raised
    THEN /\ entries' = <<>>
         /\ done' = FALSE
         /\ gerr' = "IndexError"
         /\ lookups' = st.lookups
         /\ UNCHANGED <<ambiguous, seen_dois>>
    ELSE /\ entries' = st.entries
         /\ ambiguous' = st.ambiguous
         /\ seen_dois' = st.seen_dois
         /\ lookups' = st.lookups
         /\ done' = ResolutionStep(st.entries, st.ambiguous, st.ambiguous = <<>>).done
         /\ gerr' = ResolutionStep(st.entries, st.ambiguous, st.ambiguous = <<>>).err

\* the RUN block after _parse_lines
RunBlock(lines, up) ==
    IF lines = <<>>
    THEN /\ entries' = <<>>
         /\ done' = ResolutionStep(<<>>, ambiguous, FALSE).done
         /\ gerr' = ResolutionStep(<<>>, ambiguous, FALSE).err
         /\ lookups' = <<>>
         /\ UNCHANGED <<ambiguous, seen_dois>>
    ELSE RunStore(process_all_auto(lines, up))

\* Format References is clicked: the RUN block, then the rest of the script
RunClicked(up) ==
    /\ gpc = "ready"
    /\ runs < MaxRuns
    /\ runs' = runs + 1
    /\ RunBlock(parse_lines(rawInput), up)
    /\ UNCHANGED <<rawInput, gpc, notGuiVars>>

\* a variant of Select that formats the candidate whatever DOIs are claimed
Select_noCheck(n, up) ==
    /\ ButtonsShown
    /\ LET item    == Pending(entries, ambiguous)[1]
           c       == item.candidates[n]
           raw_doi == Get(c, "DOI", <<>>)
           f       == cached_fetch_by_doi(raw_doi, up)
           m       == IF TruthyDict(f.msg) THEN f.msg ELSE c
           rd      == IF f.raw # <<>> THEN f.raw ELSE raw_doi
       IN  /\ n \in 1..Len(item.candidates)
           /\ entries' = [entries EXCEPT ![item.list_pos + 1] =
                              Citation(m, rd, item.entry_idx)]
           /\ seen_dois' = IF rd # <<>>
                           THEN (Lower(Strip(rd)) :> item.line) @@ seen_dois
                           ELSE seen_dois
           /\ lookups' = Append(lookups, f.raw)
    /\ LET step == ResolutionStep(entries', ambiguous, done)
       IN  done' = step.done /\ gerr' = step.err
    /\ UNCHANGED <<rawInput, runs, ambiguous, gpc, notGuiVars>>

\* Select is pressed on candidate n of the first pending item; st.rerun()
Select(n, up) ==
    /\ ButtonsShown
    /\ LET item    == Pending(entries, ambiguous)[1]
           c       == item.candidates[n]
           raw_doi == Get(c, "DOI", <<>>)
           doi_key == Lower(Strip(raw_doi))
           f       == cached_fetch_by_doi(raw_doi, up)
           m       == IF TruthyDict(f.msg) THEN f.msg ELSE c
           rd      == IF f.raw # <<>> THEN f.raw ELSE raw_doi
       IN  /\ n \in 1..Len(item.candidates)
           /\ IF doi_key # <<>> /\ doi_key \in DOMAIN seen_dois
              THEN /\ entries' = [entries EXCEPT ![item.list_pos + 1] =
                                     ErrorEntry(P_Duplicate, item.line)]
                   /\ UNCHANGED <<seen_dois, lookups>>
              ELSE /\ entries' = [entries EXCEPT ![item.list_pos + 1] =
                                     Citation(m, rd, item.entry_idx)]
                   /\ seen_dois' = IF rd # <<>>
                                   THEN (Lower(Strip(rd)) :> item.line) @@ seen_dois
                                   ELSE seen_dois
                   /\ lookups' = Append(lookups, f.raw)
    /\ LET step == ResolutionStep(entries', ambiguous, done)
       IN  done' = step.done /\ gerr' = step.err
    /\ UNCHANGED <<rawInput, runs, ambiguous, gpc, notGuiVars>>

\* a variant of Skip that takes the last pending item
Skip_last ==
    /\ ButtonsShown
    /\ LET pending == Pending(entries, ambiguous)
           item == pending[Len(pending)]
       IN  entries' = [entries EXCEPT ![item.list_pos + 1] = ErrorEntry(P_Skipped, item.line)]
    /\ LET step == ResolutionStep(entries', ambiguous, done)
       IN  done' = step.done /\ gerr' = step.err
    /\ UNCHANGED <<rawInput, runs, ambiguous, seen_dois, lookups, gpc, notGuiVars>>

\* Skip this entry is pressed on the first pending item; st.rerun()
Skip ==
    /\ ButtonsShown
    /\ LET item == Pending(entries, ambiguous)[1]
       IN  entries' = [entries EXCEPT ![item.list_pos + 1] = ErrorEntry(P_Skipped, item.line)]
    /\ LET step == ResolutionStep(entries', ambiguous, done)
       IN  done' = step.done /\ gerr' = step.err
    /\ UNCHANGED <<rawInput, runs, ambiguous, seen_dois, lookups, gpc, notGuiVars>>

GuiNext ==
    \/ \E l \in LineVocab : TypeLine(l)
    \/ ClearInput
    \/ \E up \in BOOLEAN : RunClicked(up)
    \/ \E n \in 1..3, up \in BOOLEAN : Select(n, up)
    \/ Skip

-----------------------------------------------------------------------------
(* Claims about the GUI pipeline, checked under SpecGui.                   *)

\* C10: once every ambiguous item is selected or skipped, the formatted
\* citations of the final list carry the ordinals 1, 2, ..., n in this
\* order, so that unresolved, skipped and duplicate lines consume none.
C10_OrdinalsContiguous ==
    AllResolved =>
        \A k \in 1..Len(real_entries) : real_entries[k].idx = k

\* an ambiguous item that was skipped has consumed its ordinal: no citation
\* carries it, and a citation carries a later one
SkipConsumedOrdinal ==
    \E k \in 1..Len(ambiguous) :
        /\ ambiguous[k].list_pos < Len(entries)
        /\ entries[ambiguous[k].list_pos + 1].tag = "error"
        /\ StartsWith(entries[ambiguous[k].list_pos + 1].text, P_Skipped)
        /\ \E i \in 1..Len(entries) :
               entries[i].tag = "cite" /\ entries[i].idx > ambiguous[k].entry_idx

\* C11: a skip during disambiguation has no side effect: it issues no exact
\* lookup, stores no record (no DOI is claimed), and the skipped line
\* consumes no ordinal.
C11_SkipNoSideEffects ==
    [][Skip => /\ lookups' = lookups
               /\ seen_dois' = seen_dois
               /\ ~SkipConsumedOrdinal']_vars

\* the canonical DOI of an entry, as the duplicate check compares it
DoiKeyOf(e) == Lower(Strip(e.rd))

\* C26: after any sequence of Format, Select and Skip actions no two formatted
\* entries of the result list carry the same non-empty canonical DOI
\* (trimmed, compared without case); a line that resolves to a DOI already
\* claimed is recorded as a duplicate and not formatted.
C26_NoTwoEntriesShareADoi ==
    \A i \in 1..Len(entries) : \A j \in 1..Len(entries) :
        (/\ i < j
         /\ entries[i].tag = "cite" /\ entries[j].tag = "cite"
         /\ DoiKeyOf(entries[i]) # <<>>)
            => DoiKeyOf(entries[i]) # DoiKeyOf(entries[j])

\* a selected candidate whose DOI was already claimed is recorded as a
\* duplicate, next to the citation that claimed it
C26_Witness ==
    \E k \in 1..Len(ambiguous) : \E i \in 1..Len(entries) :
        /\ ambiguous[k].list_pos < Len(entries)
        /\ entries[ambiguous[k].list_pos + 1].tag = "error"
        /\ StartsWith(entries[ambiguous[k].list_pos + 1].text, P_Duplicate)
        /\ entries[i].tag = "cite"
        /\ \E n \in 1..Len(ambiguous[k].candidates) :
               Lower(Strip(ambiguous[k].candidates[n]["DOI"])) = DoiKeyOf(entries[i])

\* the resolution step runs in this script run: there are stored ambiguous
\* items and done is false
ResolutionRuns == ambiguous # <<>> /\ ~done

\* C27: after any sequence of Format clicks (whatever the input, an input
\* with no reference line included), Select and Skip actions, whenever the
\* resolution step runs every stored ambiguous item's list_pos is a valid
\* index of the current entries list: the items of an earlier Format run are
\* never evaluated against the entries of a later one.
C27_ListPosAlwaysValid ==
    ResolutionRuns =>
        \A k \in 1..Len(ambiguous) : ambiguous[k].list_pos < Len(entries)

\* the positions of the entries list that still hold a None placeholder
Placeholders(ents) == {i \in 1..Len(ents) : ents[i].tag = "None"}

\* a Select or a Skip button is pressed
SelectOrSkip == Skip \/ \E n \in 1..3, up \in BOOLEAN : Select(n, up)

-----------------------------------------------------------------------------
(* The metadata client's transport: _polite_wait, _get and its callers.     *)

RATE_DELAY == 1

MAX_RETRIES == 3

BACKOFF_BASE == 2

\* the Retry-After default of _get, in seconds
DefaultRetryAfter == 60

\* the clock is read in ticks
TicksPerSecond == 2

RateTicks == RATE_DELAY * TicksPerSecond

\* b ** n
RECURSIVE Pow(_, _)
Pow(b, n) == IF n = 0 THEN 1 ELSE b * Pow(b, n - 1)

DigitValue(c) == CHOOSE d \in 0..9 : Str(d) = <<c>>

RECURSIVE DecimalValue(_, _)
DecimalValue(s, acc) ==
    IF s = <<>> THEN acc ELSE DecimalValue(Tail(s), 10 * acc + DigitValue(s[1]))

\* int(s) for a str: blanks around, an optional sign, then decimal digits;
\* anything else raises ValueError
IntOf(s) ==
    LET t      == Strip(s)
        signed == t # <<>> /\ t[1] \in {"+", "-"}
        body   == IF signed THEN Tail(t) ELSE t
    IN  IF body # <<>> /\ \A i \in 1..Len(body) : IsDigit(body[i])
        THEN Returns(IF signed /\ t[1] = "-" THEN 0 - DecimalValue(body, 0)
                     ELSE DecimalValue(body, 0))
        ELSE Raises("ValueError")

\* the header is absent
NoHeader == <<"<absent>">>

\* what the service may answer to one request
JsonResponse(body) == [kind |-> "json", code |-> 200, retryAfter |-> NoHeader, body |-> body]

NotJsonResponse == [kind |-> "notjson", code |-> 200, retryAfter |-> NoHeader, body |-> <<>>]

HttpError(code, h) == [kind |-> "http", code |-> code, retryAfter |-> h, body |-> <<>>]

NetworkError == [kind |-> "neterr", code |-> 0, retryAfter |-> NoHeader, body |-> <<>>]

NoResponse == [kind |-> "none", code |-> 0, retryAfter |-> NoHeader, body |-> <<>>]

\* the values of a Retry-After header: absent, delay-seconds, an HTTP-date
RetryAfterVocab == {NoHeader, <<"0">>, <<"2">>, <<"F","r","i",","," ","3","1"," ","D","e","c"," ","1","9","9","9"," ","2","3",":","5","9",":","5","9"," ","G","M","T">>}

\* the HTTP errors other than 429 the service answers with
ErrorCodes == {400, 404, 500, 503}

\* the JSON bodies of a 200 answer: with a message, and without one
JsonBodies(who) ==
    IF who = "fetch_by_doi"
    THEN {("message" :> Work(D_a)), ("status" :> <<"o","k">>)}
    ELSE {("message" :> ("items" :> <<>>)),
          ("message" :> ("items" :> <<Candidate(D_A)>>)),
          ("message" :> ("items" :> <<Candidate(D_a), Candidate(D_b)>>)),
          ("status" :> <<"o","k">>)}

Responses(who) ==
    {JsonResponse(b) : b \in JsonBodies(who)}
    \cup {NotJsonResponse, NetworkError}
    \cup {HttpError(c, NoHeader) : c \in ErrorCodes}
    \cup {HttpError(429, h) : h \in RetryAfterVocab}

\* a _polite_wait that never sleeps
PoliteWait_never(el) == 0

\* _polite_wait: the ticks slept, given the ticks since the last request
PoliteWait(el) == IF RateTicks - el > 0 THEN RateTicks - el ELSE 0

\* a loop that runs one attempt more
Exhausted_oneMore(att) == att > MAX_RETRIES

\* range(1, MAX_RETRIES + 1) is used up after this attempt
Exhausted(att) == att >= MAX_RETRIES

\* a try statement that retries every HTTP error from 400 on
TryRequest_retry4xx(r, att) ==
    IF r.kind = "json" THEN [next |-> "return", secs |-> 0, exc |-> "", data |-> r.body]
    ELSE IF r.kind = "notjson"
    THEN [next |-> "raise", secs |-> 0, exc |-> "ValueError", data |-> <<>>]
    ELSE IF r.kind = "http" /\ r.code = 429
    THEN LET retry_after == IF r.retryAfter = NoHeader THEN Returns(DefaultRetryAfter)
                            ELSE IntOf(r.retryAfter)
         IN  IF retry_after.raised \/ retry_after.value < 0
             THEN [next |-> "raise", secs |-> 0, exc |-> "ValueError", data |-> <<>>]
             ELSE [next |-> "retry", secs |-> retry_after.value, exc |-> "", data |-> <<>>]
    ELSE IF r.kind = "http" /\ r.code >= 400
    THEN [next |-> "retry", secs |-> Pow(BACKOFF_BASE, att), exc |-> "", data |-> <<>>]
    ELSE IF r.kind = "http"
    THEN [next |-> "raise", secs |-> 0, exc |-> "HTTPError", data |-> <<>>]
    ELSE [next |-> "retry", secs |-> Pow(BACKOFF_BASE, att), exc |-> "", data |-> <<>>]

\* the try statement of _get for the answer r to attempt att: what it does
\* next ("return", "raise" or "retry"), the seconds it sleeps before a retry,
\* and what it returns or raises
TryRequest(r, att) ==
    IF r.kind = "json" THEN [next |-> "return", secs |-> 0, exc |-> "", data |-> r.body]
    ELSE IF r.kind = "notjson"
    THEN [next |-> "raise", secs |-> 0, exc |-> "ValueError", data |-> <<>>]
    ELSE IF r.kind = "http" /\ r.code = 429
    THEN LET retry_after == IF r.retryAfter = NoHeader THEN Returns(DefaultRetryAfter)
                            ELSE IntOf(r.retryAfter)
         IN  IF retry_after.raised \/ retry_after.value < 0
             THEN [next |-> "raise", secs |-> 0, exc |-> "ValueError", data |-> <<>>]
             ELSE [next |-> "retry", secs |-> retry_after.value, exc |-> "", data |-> <<>>]
    ELSE IF r.kind = "http" /\ r.code >= 500
    THEN [next |-> "retry", secs |-> Pow(BACKOFF_BASE, att), exc |-> "", data |-> <<>>]
    ELSE IF r.kind = "http"
    THEN [next |-> "raise", secs |-> 0, exc |-> "HTTPError", data |-> <<>>]
    ELSE [next |-> "retry", secs |-> Pow(BACKOFF_BASE, att), exc |-> "", data |-> <<>>]

\* the clock after some more ticks: ticks beyond RateTicks make no difference
Later(el, ticks) == IF el + ticks > RateTicks THEN RateTicks ELSE el + ticks

NoResult == [raised |-> FALSE, exc |-> "", url |-> <<>>, data |-> <<>>]

NoWres == [who |-> "", exc |-> "", none |-> FALSE, msg |-> <<>>, raw |-> <<>>, items |-> <<>>]

WorksUrl(raw) == <<"h","t","t","p","s",":","/","/","a","p","i",".","c","r","o","s","s","r","e","f",".","o","r","g","/","w","o","r","k","s","/">> \o raw

\* the target of search_crossref for a title query; urlencode leaves the
\* titles of the model as they are
SearchUrl(title) ==
    <<"h","t","t","p","s",":","/","/","a","p","i",".","c","r","o","s","s","r","e","f",".","o","r","g","/","w","o","r","k","s","?","q","u","e","r","y",".","t","i","t","l","e","=">> \o title
    \o <<"&","r","o","w","s","=","3","&","s","e","l","e","c","t","=","D","O","I","%","2","C","t","i","t","l","e","%","2","C","a","u","t","h","o","r","%","2","C","c","o","n","t","a","i","n","e","r","-","t","i","t","l","e","%","2","C","p","u","b","l","i","s","h","e","d","%","2","C","v","o","l","u","m","e","%","2","C","i","s","s","u","e","%","2","C","p","a","g","e","%","2","C","s","c","o","r","e">>

-----------------------------------------------------------------------------
(* The transport driven by lookups and by the service's answers.            *)

MaxCalls == 2

\* fetch_by_doi(doi) reaches its call of _get
StartFetch(doi) ==
    /\ tpc = "ready"
    /\ calls < MaxCalls
    /\ caller' = "fetch_by_doi"
    /\ url' = WorksUrl(LStripSet(LStripSet(Strip(doi), Range(<<"h","t","t","p","s",":","/","/","d","o","i",".","o","r","g","/">>)),
                                 Range(<<"h","t","t","p",":","/","/","d","x",".","d","o","i",".","o","r","g","/">>)))
    /\ attempt' = 1
    /\ requests' = 0
    /\ sleeps' = <<>>
    /\ response' = NoResponse
    /\ getResult' = NoResult
    /\ wres' = NoWres
    /\ tpc' = "wait"
    /\ UNCHANGED <<elapsed, gap, calls, notGetVars>>

\* search_crossref(query_params) reaches its call of _get
StartSearch(title) ==
    /\ tpc = "ready"
    /\ calls < MaxCalls
    /\ caller' = "search_crossref"
    /\ url' = SearchUrl(title)
    /\ attempt' = 1
    /\ requests' = 0
    /\ sleeps' = <<>>
    /\ response' = NoResponse
    /\ getResult' = NoResult
    /\ wres' = NoWres
    /\ tpc' = "wait"
    /\ UNCHANGED <<elapsed, gap, calls, notGetVars>>

\* time passes between two lookups and while a request is in flight
Tick ==
    /\ tpc \in {"ready", "inflight"}
    /\ elapsed < RateTicks
    /\ elapsed' = elapsed + 1
    /\ UNCHANGED <<caller, url, attempt, gap, requests, sleeps, response, getResult,
                   wres, calls, tpc, notGetVars>>

\* the head of the loop of _get: _polite_wait(), then the request is issued
SendRequest ==
    /\ tpc = "wait"
    /\ sleeps' = IF PoliteWait(elapsed) > 0
                 THEN Append(sleeps, [why |-> "polite", ticks |-> PoliteWait(elapsed)])
                 ELSE sleeps
    /\ gap' = Later(elapsed, PoliteWait(elapsed))
    /\ elapsed' = 0
    /\ requests' = requests + 1
    /\ tpc' = "inflight"
    /\ UNCHANGED <<caller, url, attempt, response, getResult, wres, calls, notGetVars>>

\* what _get does with the outcome t of its try statement
AfterTry(t) ==
    IF t.next = "return"
    THEN /\ getResult' = [raised |-> FALSE, exc |-> "", url |-> <<>>, data |-> t.data]
         /\ tpc' = "got"
         /\ UNCHANGED <<attempt, elapsed, sleeps>>
    ELSE IF t.next = "raise"
    THEN /\ getResult' = [raised |-> TRUE, exc |-> t.exc, url |-> <<>>, data |-> <<>>]
         /\ tpc' = "got"
         /\ UNCHANGED <<attempt, elapsed, sleeps>>
    ELSE /\ sleeps' = Append(sleeps, [why |-> "retry", ticks |-> t.secs * TicksPerSecond])
         /\ elapsed' = Later(elapsed, t.secs * TicksPerSecond)
         /\ IF Exhausted(attempt)
            THEN /\ getResult' = [raised |-> TRUE, exc |-> "RuntimeError", url |-> url,
                                  data |-> <<>>]
                 /\ tpc' = "got"
                 /\ UNCHANGED attempt
            ELSE /\ attempt' = attempt + 1
                 /\ tpc' = "wait"
                 /\ UNCHANGED getResult

\* the service answers the request in flight; _get handles the answer
Respond(r) ==
    /\ tpc = "inflight"
    /\ r \in Responses(caller)
    /\ response' = r
    /\ AfterTry(TryRequest(r, attempt))
    /\ UNCHANGED <<caller, url, gap, requests, wres, calls, notGetVars>>

\* except clauses that catch HTTPError only
Catches_httpOnly(clause, exc) == exc = "HTTPError"

\* the exception classes _get raises, and those an except clause catches
\* (json.JSONDecodeError is a ValueError)
Catches(clause, exc) ==
    IF clause = "HTTPError" THEN exc = "HTTPError"
    ELSE clause = "Exception" /\ exc \in {"HTTPError", "RuntimeError", "ValueError"}

\* fetch_by_doi after _get: (message, raw), or (None, raw) when one of its
\* except clauses catches; exc is an exception that leaves the function
FetchResult(g, raw) ==
    IF ~g.raised
    THEN [who |-> "fetch_by_doi", exc |-> "", none |-> FALSE,
          msg |-> Get(g.data, "message", <<>>), raw |-> raw, items |-> <<>>]
    ELSE IF Catches("HTTPError", g.exc) \/ Catches("Exception", g.exc)
    THEN [who |-> "fetch_by_doi", exc |-> "", none |-> TRUE, msg |-> <<>>, raw |-> raw,
          items |-> <<>>]
    ELSE [who |-> "fetch_by_doi", exc |-> g.exc, none |-> FALSE, msg |-> <<>>, raw |-> <<>>,
          items |-> <<>>]

\* search_crossref after _get: the items, or [] when its except clause
\* catches
SearchResult(g) ==
    IF ~g.raised
    THEN [who |-> "search_crossref", exc |-> "", none |-> FALSE, msg |-> <<>>, raw |-> <<>>,
          items |-> Get(Get(g.data, "message", <<>>), "items", <<>>)]
    ELSE IF Catches("Exception", g.exc)
    THEN [who |-> "search_crossref", exc |-> "", none |-> FALSE, msg |-> <<>>, raw |-> <<>>,
          items |-> <<>>]
    ELSE [who |-> "search_crossref", exc |-> g.exc, none |-> FALSE, msg |-> <<>>,
          raw |-> <<>>, items |-> <<>>]

\* the caller of _get returns
CallerReturns ==
    /\ tpc = "got"
    /\ wres' = IF caller = "fetch_by_doi"
               THEN FetchResult(getResult, From(url, 1 + Len(WorksUrl(<<>>))))
               ELSE SearchResult(getResult)
    /\ calls' = calls + 1
    /\ tpc' = "ready"
    /\ UNCHANGED <<caller, url, attempt, elapsed, gap, requests, sleeps, response,
                   getResult, notGetVars>>

GetNext ==
    \/ \E doi \in {D_a} : StartFetch(doi)
    \/ \E title \in {T_Deep} : StartSearch(title)
    \/ Tick
    \/ SendRequest
    \/ \E r \in Responses("fetch_by_doi") \cup Responses("search_crossref") : Respond(r)
    \/ CallerReturns

-----------------------------------------------------------------------------
(* Claims about the transport, checked under SpecGet.                      *)

RetrySleeps == Len(SelectSeq(sleeps, LAMBDA z : z.why = "retry"))

GetEnded == tpc \in {"got", "ready"} /\ requests > 0

C13_ClientErrorFailsAtOnce ==
    [][(tpc = "inflight" /\ tpc' # "inflight"
          /\ response'.kind = "http" /\ response'.code # 429 /\ response'.code < 500)
       => /\ tpc' = "got"
          /\ getResult'.raised /\ getResult'.exc = "HTTPError"
          /\ sleeps' = sleeps
          /\ elapsed' = elapsed
          /\ requests' = requests
          /\ attempt' = attempt]_vars

C13_Witness ==
    /\ tpc = "got" /\ response.kind = "http" /\ response.code = 404
    /\ attempt < MAX_RETRIES /\ requests = attempt /\ getResult.exc = "HTTPError"

\* the delay a Retry-After value asks for, in seconds, where it is a number
RetryAfterSeconds(h) ==
    IF h = NoHeader THEN DefaultRetryAfter
    ELSE IF IntOf(h).raised THEN 0 ELSE IntOf(h).value

\* C14: on a 429 _get reads Retry-After (60 s if absent), sleeps that long
\* and goes on to the next attempt, whatever value the header carries; the
\* 429 uses up one attempt.
C14_RetryAfterHonoured ==
    [][(tpc = "inflight" /\ tpc' # "inflight"
          /\ response'.kind = "http" /\ response'.code = 429)
       => /\ Len(sleeps') = Len(sleeps) + 1
          /\ sleeps'[Len(sleeps')].why = "retry"
          /\ (response'.retryAfter = NoHeader \/ ~IntOf(response'.retryAfter).raised)
                => sleeps'[Len(sleeps')].ticks
                       = RetryAfterSeconds(response'.retryAfter) * TicksPerSecond
          /\ IF attempt < MAX_RETRIES
             THEN tpc' = "wait" /\ attempt' = attempt + 1
             ELSE tpc' = "got" /\ getResult'.exc = "RuntimeError"]_vars

\* C15: every request is issued at least RATE_DELAY after the one before
\* it, inside one _get call and across lookups: _polite_wait sleeps for the
\* shortfall and then records the time of the request.
C15_RateLimited ==
    [][(tpc = "wait" /\ tpc' = "inflight")
       => /\ gap' >= RateTicks
          /\ elapsed' = 0
          /\ requests' = requests + 1
          /\ IF elapsed < RateTicks
             THEN sleeps' = Append(sleeps, [why |-> "polite", ticks |-> RateTicks - elapsed])
             ELSE sleeps' = sleeps]_vars

\* a second lookup had to sleep before its first request
C15_Witness ==
    /\ calls = 1 /\ tpc = "inflight" /\ requests = 1
    /\ sleeps = <<[why |-> "polite", ticks |-> 1]>>

\* C16: a failure of the transport shows outside the client only as an
\* absent record: whenever _get raises (a 4xx, retry exhaustion, a body
\* that is not JSON), fetch_by_doi returns (None, id) and search_crossref
\* returns [], and no exception leaves them, so that resolve_input, which
\* calls only these two, passes none on.
C16_FailuresAreAbsentRecords ==
    (tpc = "ready" /\ calls > 0) =>
        /\ wres.exc = ""
        /\ getResult.raised =>
               IF caller = "fetch_by_doi"
               THEN wres.none /\ WorksUrl(wres.raw) = url
               ELSE wres.items = <<>> /\ ~wres.none

C16_Witness ==
    /\ tpc = "ready" /\ caller = "fetch_by_doi" /\ getResult.exc = "RuntimeError"
    /\ wres.none /\ wres.raw = D_a

-----------------------------------------------------------------------------
(* The command-line program: main's loop over the lines and resolve_input *)
(* with its prompt.                                                        *)

\* a character that str.isdigit accepts and int rejects: U+00B2, superscript two
SuperscriptTwo == "^2"

\* str.isdigit
isdigit(s) == s # <<>> /\ \A i \in 1..Len(s) : s[i] \in Digits \cup {SuperscriptTwo}

NoRet == [kind |-> "none", msg |-> <<>>, doi |-> <<>>, exc |-> ""]

ReturnPair(msg, doi) == [kind |-> "return", msg |-> msg, doi |-> doi, exc |-> ""]

\* resolve_input up to the prompt: the pair it returns, or the candidates it
\* asks about
ResolveStart(inf, up) ==
    IF inf.type = "doi"
    THEN LET f == fetch_by_doi(inf.doi, up)
         IN  [ask |-> <<>>, out |-> ReturnPair(IF TruthyDict(f.msg) THEN f.msg ELSE None, f.raw)]
    ELSE LET candidates == search_crossref(build_query(inf), up)
         IN  IF candidates = <<>>
             THEN [ask |-> <<>>, out |-> ReturnPair(None, <<>>)]
             ELSE IF Len(candidates) = 1
             THEN [ask |-> <<>>,
                   out |-> ReturnPair(candidates[1], Get(candidates[1], "DOI", <<>>))]
             ELSE [ask |-> candidates, out |-> NoRet]

\* one pass of the while loop of resolve_input on the answer ans
ReadChoice(ans, candidates, up) ==
    LET ch == Lower(Strip(ans))
    IN  IF ch = <<"s">> THEN ReturnPair(None, <<>>)
        ELSE IF ~isdigit(ch) THEN NoRet
        ELSE IF IntOf(ch).raised
        THEN [kind |-> "raise", msg |-> <<>>, doi |-> <<>>, exc |-> IntOf(ch).value]
        ELSE IF 1 <= IntOf(ch).value /\ IntOf(ch).value <= Len(candidates)
        THEN LET chosen  == candidates[IntOf(ch).value]
                 raw_doi == Get(chosen, "DOI", <<>>)
                 f       == fetch_by_doi(raw_doi, up)
             IN  ReturnPair(IF TruthyDict(f.msg) THEN f.msg ELSE chosen,
                            IF f.raw # <<>> THEN f.raw ELSE raw_doi)
        ELSE NoRet

MaxCliLines == 2
MaxPrompts == 2

ChoiceVocab == {<<"s">>, <<" ","S">>, <<"1">>, <<"2"," ">>, <<"3">>, <<"0">>, <<"x">>, <<>>, <<SuperscriptTwo>>}

\* main reads a line and calls resolve_input
ResolveInput(ln, up) ==
    /\ clipc = "ready"
    /\ cliDone < MaxCliLines
    /\ ~detect_input_type(ln).raised
    /\ LET r == ResolveStart(detect_input_type(ln).value, up)
       IN  /\ cands' = r.ask
           /\ ret' = r.out
           /\ prompts' = IF r.ask = <<>> THEN 0 ELSE 1
           /\ clipc' = IF r.ask = <<>> THEN "returned" ELSE "prompt"
    /\ cliLine' = ln
    /\ net' = up
    /\ choice' = <<>>
    /\ UNCHANGED <<cliIdx, cliDone>>
    /\ UNCHANGED notCliVars

\* the user answers the prompt
Choose(ans, up) ==
    /\ clipc = "prompt"
    /\ LET r == ReadChoice(ans, cands, up)
       IN  /\ r.kind = "none" => prompts < MaxPrompts
           /\ ret' = r
           /\ prompts' = IF r.kind = "none" THEN prompts + 1 ELSE prompts
           /\ clipc' = CASE r.kind = "none" -> "prompt"
                       [] r.kind = "return" -> "returned"
                       [] OTHER -> "crashed"
    /\ choice' = ans
    /\ net' = up
    /\ UNCHANGED <<cliLine, cands, cliIdx, cliDone>>
    /\ UNCHANGED notCliVars

\* main after resolve_input returned: a skipped line takes no ordinal
MainStep ==
    /\ clipc = "returned"
    /\ cliIdx' = IF ret.msg = None THEN cliIdx ELSE cliIdx + 1
    /\ cliDone' = cliDone + 1
    /\ clipc' = "ready"
    /\ UNCHANGED <<cliLine, cands, choice, net, prompts, ret>>
    /\ UNCHANGED notCliVars

CliNext ==
    \/ \E ln \in LineVocab, up \in BOOLEAN : ResolveInput(ln, up)
    \/ \E ans \in ChoiceVocab, up \in BOOLEAN : Choose(ans, up)
    \/ MainStep

-----------------------------------------------------------------------------
(* Claims about the command-line program, checked under SpecCli.           *)

\* the answer names one of the candidates shown
ValidSelection(ans, shown) == \E n \in 1..Len(shown) : Lower(Strip(ans)) = Str(n)

SelectedOf(ans, shown) ==
    shown[CHOOSE n \in 1..Len(shown) : Lower(Strip(ans)) = Str(n)]

\* C17: at the prompt of resolve_input a valid selection re-fetches the
\* chosen candidate by its identifier and returns (full record, id) when
\* the re-fetch succeeds and (the candidate, its id) when it fails; an
\* answer that is neither a valid selection nor the skip changes nothing
\* and prompts again.
C17_SelectionRefetches ==
    [][(clipc = "prompt" /\ clipc' # "idle" /\ choice' \in ChoiceVocab
          /\ (prompts' # prompts \/ clipc' # "prompt"))
       => IF ValidSelection(choice', cands)
          THEN LET c   == SelectedOf(choice', cands)
                   got == net' /\ Lower(c["DOI"]) \in ServiceWorks
               IN  /\ clipc' = "returned"
                   /\ ret' = ReturnPair(IF got THEN Work(c["DOI"]) ELSE c, c["DOI"])
          ELSE IF Lower(Strip(choice')) = <<"s">>
          THEN clipc' = "returned" /\ ret'.msg = None
          ELSE /\ clipc' = "prompt"
               /\ prompts' = prompts + 1
               /\ ret'.kind = "none"
               /\ cands' = cands /\ cliIdx' = cliIdx /\ cliDone' = cliDone]_vars

-----------------------------------------------------------------------------
(* The cache layer of the GUI: _redis_request, _cache_get, _cache_set and  *)
(* the cached wrappers, with a store reached over REST.                    *)

\* Python values the cache layer handles, with their type
PyNone == [t |-> "None", v |-> <<>>]
PyDict(d) == [t |-> "dict", v |-> d]
PyList(l) == [t |-> "list", v |-> l]

\* json.dumps(x): the str that is the JSON text of x
dumps(x) == [t |-> "str", v |-> x]

\* json.loads(s): the value a JSON text stands for
loads(s) == IF s.t = "str" THEN Returns(s.v) ELSE Raises("TypeError")

\* the key of a DOI
DoiKey(doi) == <<"c","f",":","d","o","i",":">> \o Lower(Strip(doi))

\* _search_cache_key: the digest of json.dumps(params, sort_keys=True), one
\* digest per text; a query with a title only is told by its title
search_cache_key(params) == <<"c","f",":","s","e","a","r","c","h",":">> \o Get(params, "query.title", <<>>)

\* _redis_request("GET", "/get/<key>"): the parsed answer, or None when the
\* secrets are missing or the request fails
RedisGet(key, ok) ==
    IF ~configured \/ ~ok THEN PyNone
    ELSE PyDict("result" :> (IF key \in DOMAIN redis THEN redis[key] ELSE PyNone))

\* _cache_get and _search_cache_get after the key is built
cache_get(key, ok) ==
    LET result == RedisGet(key, ok)
    IN  IF result # PyNone /\ result.v["result"] # PyNone
        THEN IF loads(result.v["result"]).raised THEN PyNone
             ELSE loads(result.v["result"]).value
        ELSE PyNone

\* the request body _redis_request sends for body=data: json.dumps(body)
RequestBody(data) == dumps(data)

\* what the store keeps for SET <key> with a request body
Kept(body) == IF serverParses THEN loads(body).value ELSE body

\* _cache_set and _search_cache_set after the key is built: the store after
\* data = json.dumps(value) was posted
cache_set(key, value, ok) ==
    IF ~configured \/ ~ok THEN redis
    ELSE (key :> Kept(RequestBody(dumps(value)))) @@ redis

NoCall == [msg |-> PyNone, rd |-> <<>>]

\* fetch_by_doi against a service that answers, as a typed pair
UncachedFetch(doi) ==
    LET f == fetch_by_doi(doi, TRUE)
    IN  [msg |-> IF TruthyDict(f.msg) THEN PyDict(f.msg) ELSE PyNone, rd |-> f.raw]

UncachedSearch(params) == [msg |-> PyList(search_crossref(params, TRUE)), rd |-> <<>>]

MaxLookups == 3

D_x == <<"1","0",".","9","0","0","0","/","x">>
T_Zzz == <<"Z","z","z">>

CacheDois == {D_a, D_A, D_x}
CacheTitles == {T_Deep, T_Attention, T_Zzz}

\* a variant that stores the result of the lookup whatever it is
CachedFetchByDoi_alwaysSet(doi, okGet, okSet) ==
    /\ kpc = "ready"
    /\ lookupsDone < MaxLookups
    /\ LET f      == UncachedFetch(doi)
           cached == cache_get(DoiKey(f.rd), okGet)
       IN  IF cached # PyNone
           THEN /\ hit' = TRUE
                /\ cres' = [msg |-> cached, rd |-> f.rd]
                /\ UNCHANGED <<netCalls, redis>>
           ELSE /\ hit' = FALSE
                /\ netCalls' = netCalls + 1
                /\ cres' = f
                /\ redis' = cache_set(DoiKey(f.rd), f.msg, okSet)
    /\ ures' = UncachedFetch(doi)
    /\ lookupsDone' = lookupsDone + 1
    /\ UNCHANGED <<configured, serverParses, kpc>>
    /\ UNCHANGED notCacheVars

\* cached_fetch_by_doi(doi)
CachedFetchByDoi(doi, okGet, okSet) ==
    /\ kpc = "ready"
    /\ lookupsDone < MaxLookups
    /\ LET f      == UncachedFetch(doi)
           cached == cache_get(DoiKey(f.rd), okGet)
       IN  IF cached # PyNone
           THEN /\ hit' = TRUE
                /\ cres' = [msg |-> cached, rd |-> f.rd]
                /\ UNCHANGED <<netCalls, redis>>
           ELSE /\ hit' = FALSE
                /\ netCalls' = netCalls + 1
                /\ cres' = f
                /\ redis' = IF f.msg # PyNone THEN cache_set(DoiKey(f.rd), f.msg, okSet)
                            ELSE redis
    /\ ures' = UncachedFetch(doi)
    /\ lookupsDone' = lookupsDone + 1
    /\ UNCHANGED <<configured, serverParses, kpc>>
    /\ UNCHANGED notCacheVars

\* cached_search_crossref(params) for the query of a title
CachedSearchCrossref(title, okGet, okSet) ==
    /\ kpc = "ready"
    /\ lookupsDone < MaxLookups
    /\ LET params == ("query.title" :> title)
           cached == cache_get(search_cache_key(params), okGet)
           f      == UncachedSearch(params)
       IN  /\ IF cached # PyNone
              THEN /\ hit' = TRUE
                   /\ cres' = [msg |-> cached, rd |-> <<>>]
                   /\ UNCHANGED <<netCalls, redis>>
              ELSE /\ hit' = FALSE
                   /\ netCalls' = netCalls + 1
                   /\ cres' = f
                   /\ redis' = IF f.msg.v # <<>>
                               THEN cache_set(search_cache_key(params), f.msg, okSet)
                               ELSE redis
           /\ ures' = f
    /\ lookupsDone' = lookupsDone + 1
    /\ UNCHANGED <<configured, serverParses, kpc>>
    /\ UNCHANGED notCacheVars

CacheNext ==
    \/ \E doi \in CacheDois, okGet \in BOOLEAN, okSet \in BOOLEAN :
          CachedFetchByDoi(doi, okGet, okSet)
    \/ \E title \in CacheTitles, okGet \in BOOLEAN, okSet \in BOOLEAN :
          CachedSearchCrossref(title, okGet, okSet)

-----------------------------------------------------------------------------
(* Claims about the cache layer, checked under SpecCache.                  *)

\* C18: the cache is transparent: a cached wrapper returns what the
\* uncached function returns for the same arguments from a service that
\* answers alike each time, it makes no call to the service on a hit and
\* one call on a miss, whether the store is configured or not and whether
\* its requests succeed or fail.
C18_CacheTransparent ==
    [][(kpc = "ready" /\ lookupsDone' = lookupsDone + 1)
       => /\ cres' = ures'
          /\ netCalls' = IF hit' THEN netCalls ELSE netCalls + 1]_vars

\* a lookup that failed (no record) or a search that found nothing
EmptyResultOf(u) == u.msg = PyNone \/ u.msg = PyList(<<>>)

\* one call of a cached wrapper
LookupStep == kpc = "ready" /\ lookupsDone' = lookupsDone + 1

\* C29: only successful, non-empty results are ever written to the cache: a
\* failed exact lookup and an empty search result leave the cache unchanged,
\* so that a later identical request is a miss and goes to the network
\* again; whatever changes the cache is a miss with a non-empty result,
\* stored under the key of the request.
C29_OnlyResultsAreCached ==
    [][LookupStep =>
          /\ EmptyResultOf(ures') =>
                (redis' = redis /\ ~hit' /\ netCalls' = netCalls + 1)
          /\ redis' # redis =>
                /\ ~hit' /\ ~EmptyResultOf(ures') /\ configured
                /\ \E key \in DOMAIN redis' :
                      /\ redis' = (key :> Kept(RequestBody(dumps(ures'.msg)))) @@ redis
                      /\ ures'.msg.t = "dict" => key = DoiKey(ures'.rd)]_vars

\* with a configured store that holds an earlier result, a DOI with no record
\* was looked up: three calls so far, all three went to the network
C29_Witness ==
    /\ configured /\ redis # <<>>
    /\ lookupsDone = 3 /\ netCalls = 3
    /\ ~hit /\ cres = [msg |-> PyNone, rd |-> D_x]
    /\ DoiKey(D_x) \notin DOMAIN redis

-----------------------------------------------------------------------------
(* The classifier's result as the query builder reads it, checked under    *)
(* SpecClassify.                                                           *)

\* C30: every non-DOI descriptor returned by detect_input_type has a
\* non-empty title or a non-empty author, so build_query applied to it gives
\* a title or an author parameter and never the free-text
\* query.bibliographic fallback.
C30_QueryAlwaysFieldScoped ==
    (cpc = "returned" /\ info.type # "doi") =>
        /\ Truthy(info.title) \/ Truthy(info.author)
        /\ {"query.title", "query.author"} \cap DOMAIN build_query(info) # {}
        /\ "query.bibliographic" \notin DOMAIN build_query(info)

\* a descriptor with no title, whose query is scoped by its author
C30_Witness ==
    /\ cpc = "returned" /\ info.type = "author_journal_year"
    /\ info.title = None /\ info.author = S_Vaswani
    /\ DOMAIN build_query(info) = {"query.author", "query.container-title", "filter"}

-----------------------------------------------------------------------------
(* The specifications: one component runs, the others stay idle.           *)

ClassifyInit ==
    /\ line = <<>>
    /\ typed = <<>>
    /\ lineKind = "empty"
    /\ bareDoi = None
    /\ info = EmptyResult(<<>>)
    /\ cpc = "input"
    /\ rec = RecEmpty
    /\ rawDoi = <<>>
    /\ ordinal = 0
    /\ style = ""
    /\ out = <<>>
    /\ fpc = "idle"
    /\ author = <<>>
    /\ query = <<>>
    /\ matched = FALSE
    /\ mpc = "idle"
    /\ htext = <<>>
    /\ targets = <<>>
    /\ tagPair = MdBold
    /\ hpc = "idle"
    /\ rawInput = <<>>
    /\ runs = 0
    /\ entries = <<>>
    /\ ambiguous = <<>>
    /\ done = FALSE
    /\ seen_dois = <<>>
    /\ lookups = <<>>
    /\ gerr = ""
    /\ gpc = "idle"
    /\ caller = ""
    /\ url = <<>>
    /\ attempt = 0
    /\ elapsed = RateTicks
    /\ gap = RateTicks
    /\ requests = 0
    /\ sleeps = <<>>
    /\ response = NoResponse
    /\ getResult = NoResult
    /\ wres = NoWres
    /\ calls = 0
    /\ tpc = "idle"
    /\ cliLine = <<>>
    /\ cands = <<>>
    /\ choice = <<>>
    /\ net = TRUE
    /\ prompts = 0
    /\ ret = NoRet
    /\ cliIdx = 1
    /\ cliDone = 0
    /\ clipc = "idle"
    /\ configured = FALSE
    /\ serverParses = FALSE
    /\ redis = <<>>
    /\ netCalls = 0
    /\ hit = FALSE
    /\ cres = NoCall
    /\ ures = NoCall
    /\ lookupsDone = 0
    /\ kpc = "idle"

FormatInit ==
    /\ rec \in RecordVocab
    /\ rawDoi = S_TestDoi
    /\ ordinal = 0
    /\ style = ""
    /\ out = <<>>
    /\ fpc = "build"
    /\ line = <<>>
    /\ typed = <<>>
    /\ lineKind = "empty"
    /\ bareDoi = None
    /\ info = EmptyResult(<<>>)
    /\ cpc = "idle"
    /\ author = <<>>
    /\ query = <<>>
    /\ matched = FALSE
    /\ mpc = "idle"
    /\ htext = <<>>
    /\ targets = <<>>
    /\ tagPair = MdBold
    /\ hpc = "idle"
    /\ rawInput = <<>>
    /\ runs = 0
    /\ entries = <<>>
    /\ ambiguous = <<>>
    /\ done = FALSE
    /\ seen_dois = <<>>
    /\ lookups = <<>>
    /\ gerr = ""
    /\ gpc = "idle"
    /\ caller = ""
    /\ url = <<>>
    /\ attempt = 0
    /\ elapsed = RateTicks
    /\ gap = RateTicks
    /\ requests = 0
    /\ sleeps = <<>>
    /\ response = NoResponse
    /\ getResult = NoResult
    /\ wres = NoWres
    /\ calls = 0
    /\ tpc = "idle"
    /\ cliLine = <<>>
    /\ cands = <<>>
    /\ choice = <<>>
    /\ net = TRUE
    /\ prompts = 0
    /\ ret = NoRet
    /\ cliIdx = 1
    /\ cliDone = 0
    /\ clipc = "idle"
    /\ configured = FALSE
    /\ serverParses = FALSE
    /\ redis = <<>>
    /\ netCalls = 0
    /\ hit = FALSE
    /\ cres = NoCall
    /\ ures = NoCall
    /\ lookupsDone = 0
    /\ kpc = "idle"

MatchInit ==
    /\ author \in AuthorVocab
    /\ query = <<>>
    /\ matched = FALSE
    /\ mpc = "input"
    /\ line = <<>>
    /\ typed = <<>>
    /\ lineKind = "empty"
    /\ bareDoi = None
    /\ info = EmptyResult(<<>>)
    /\ cpc = "idle"
    /\ rec = RecEmpty
    /\ rawDoi = <<>>
    /\ ordinal = 0
    /\ style = ""
    /\ out = <<>>
    /\ fpc = "idle"
    /\ htext = <<>>
    /\ targets = <<>>
    /\ tagPair = MdBold
    /\ hpc = "idle"
    /\ rawInput = <<>>
    /\ runs = 0
    /\ entries = <<>>
    /\ ambiguous = <<>>
    /\ done = FALSE
    /\ seen_dois = <<>>
    /\ lookups = <<>>
    /\ gerr = ""
    /\ gpc = "idle"
    /\ caller = ""
    /\ url = <<>>
    /\ attempt = 0
    /\ elapsed = RateTicks
    /\ gap = RateTicks
    /\ requests = 0
    /\ sleeps = <<>>
    /\ response = NoResponse
    /\ getResult = NoResult
    /\ wres = NoWres
    /\ calls = 0
    /\ tpc = "idle"
    /\ cliLine = <<>>
    /\ cands = <<>>
    /\ choice = <<>>
    /\ net = TRUE
    /\ prompts = 0
    /\ ret = NoRet
    /\ cliIdx = 1
    /\ cliDone = 0
    /\ clipc = "idle"
    /\ configured = FALSE
    /\ serverParses = FALSE
    /\ redis = <<>>
    /\ netCalls = 0
    /\ hit = FALSE
    /\ cres = NoCall
    /\ ures = NoCall
    /\ lookupsDone = 0
    /\ kpc = "idle"

HighlightInit ==
    /\ htext \in {<<t>> : t \in TextVocab}
    /\ targets \in TargetVocab
    /\ tagPair \in TagPairs
    /\ hpc = "run"
    /\ line = <<>>
    /\ typed = <<>>
    /\ lineKind = "empty"
    /\ bareDoi = None
    /\ info = EmptyResult(<<>>)
    /\ cpc = "idle"
    /\ rec = RecEmpty
    /\ rawDoi = <<>>
    /\ ordinal = 0
    /\ style = ""
    /\ out = <<>>
    /\ fpc = "idle"
    /\ author = <<>>
    /\ query = <<>>
    /\ matched = FALSE
    /\ mpc = "idle"
    /\ rawInput = <<>>
    /\ runs = 0
    /\ entries = <<>>
    /\ ambiguous = <<>>
    /\ done = FALSE
    /\ seen_dois = <<>>
    /\ lookups = <<>>
    /\ gerr = ""
    /\ gpc = "idle"
    /\ caller = ""
    /\ url = <<>>
    /\ attempt = 0
    /\ elapsed = RateTicks
    /\ gap = RateTicks
    /\ requests = 0
    /\ sleeps = <<>>
    /\ response = NoResponse
    /\ getResult = NoResult
    /\ wres = NoWres
    /\ calls = 0
    /\ tpc = "idle"
    /\ cliLine = <<>>
    /\ cands = <<>>
    /\ choice = <<>>
    /\ net = TRUE
    /\ prompts = 0
    /\ ret = NoRet
    /\ cliIdx = 1
    /\ cliDone = 0
    /\ clipc = "idle"
    /\ configured = FALSE
    /\ serverParses = FALSE
    /\ redis = <<>>
    /\ netCalls = 0
    /\ hit = FALSE
    /\ cres = NoCall
    /\ ures = NoCall
    /\ lookupsDone = 0
    /\ kpc = "idle"

GuiInit ==
    /\ rawInput = <<>>
    /\ runs = 0
    /\ entries = <<>>
    /\ ambiguous = <<>>
    /\ done = FALSE
    /\ seen_dois = <<>>
    /\ lookups = <<>>
    /\ gerr = ""
    /\ gpc = "ready"
    /\ line = <<>>
    /\ typed = <<>>
    /\ lineKind = "empty"
    /\ bareDoi = None
    /\ info = EmptyResult(<<>>)
    /\ cpc = "idle"
    /\ rec = RecEmpty
    /\ rawDoi = <<>>
    /\ ordinal = 0
    /\ style = ""
    /\ out = <<>>
    /\ fpc = "idle"
    /\ author = <<>>
    /\ query = <<>>
    /\ matched = FALSE
    /\ mpc = "idle"
    /\ htext = <<>>
    /\ targets = <<>>
    /\ tagPair = MdBold
    /\ hpc = "idle"
    /\ caller = ""
    /\ url = <<>>
    /\ attempt = 0
    /\ elapsed = RateTicks
    /\ gap = RateTicks
    /\ requests = 0
    /\ sleeps = <<>>
    /\ response = NoResponse
    /\ getResult = NoResult
    /\ wres = NoWres
    /\ calls = 0
    /\ tpc = "idle"
    /\ cliLine = <<>>
    /\ cands = <<>>
    /\ choice = <<>>
    /\ net = TRUE
    /\ prompts = 0
    /\ ret = NoRet
    /\ cliIdx = 1
    /\ cliDone = 0
    /\ clipc = "idle"
    /\ configured = FALSE
    /\ serverParses = FALSE
    /\ redis = <<>>
    /\ netCalls = 0
    /\ hit = FALSE
    /\ cres = NoCall
    /\ ures = NoCall
    /\ lookupsDone = 0
    /\ kpc = "idle"

GetInit ==
    /\ caller = ""
    /\ url = <<>>
    /\ attempt = 0
    /\ elapsed = RateTicks
    /\ gap = RateTicks
    /\ requests = 0
    /\ sleeps = <<>>
    /\ response = NoResponse
    /\ getResult = NoResult
    /\ wres = NoWres
    /\ calls = 0
    /\ tpc = "ready"
    /\ line = <<>>
    /\ typed = <<>>
    /\ lineKind = "empty"
    /\ bareDoi = None
    /\ info = EmptyResult(<<>>)
    /\ cpc = "idle"
    /\ rec = RecEmpty
    /\ rawDoi = <<>>
    /\ ordinal = 0
    /\ style = ""
    /\ out = <<>>
    /\ fpc = "idle"
    /\ author = <<>>
    /\ query = <<>>
    /\ matched = FALSE
    /\ mpc = "idle"
    /\ htext = <<>>
    /\ targets = <<>>
    /\ tagPair = MdBold
    /\ hpc = "idle"
    /\ rawInput = <<>>
    /\ runs = 0
    /\ entries = <<>>
    /\ ambiguous = <<>>
    /\ done = FALSE
    /\ seen_dois = <<>>
    /\ lookups = <<>>
    /\ gerr = ""
    /\ gpc = "idle"
    /\ cliLine = <<>>
    /\ cands = <<>>
    /\ choice = <<>>
    /\ net = TRUE
    /\ prompts = 0
    /\ ret = NoRet
    /\ cliIdx = 1
    /\ cliDone = 0
    /\ clipc = "idle"
    /\ configured = FALSE
    /\ serverParses = FALSE
    /\ redis = <<>>
    /\ netCalls = 0
    /\ hit = FALSE
    /\ cres = NoCall
    /\ ures = NoCall
    /\ lookupsDone = 0
    /\ kpc = "idle"

CliInit ==
    /\ cliLine = <<>>
    /\ cands = <<>>
    /\ choice = <<>>
    /\ net = TRUE
    /\ prompts = 0
    /\ ret = NoRet
    /\ cliIdx = 1
    /\ cliDone = 0
    /\ clipc = "ready"
    /\ line = <<>>
    /\ typed = <<>>
    /\ lineKind = "empty"
    /\ bareDoi = None
    /\ info = EmptyResult(<<>>)
    /\ cpc = "idle"
    /\ rec = RecEmpty
    /\ rawDoi = <<>>
    /\ ordinal = 0
    /\ style = ""
    /\ out = <<>>
    /\ fpc = "idle"
    /\ author = <<>>
    /\ query = <<>>
    /\ matched = FALSE
    /\ mpc = "idle"
    /\ htext = <<>>
    /\ targets = <<>>
    /\ tagPair = MdBold
    /\ hpc = "idle"
    /\ rawInput = <<>>
    /\ runs = 0
    /\ entries = <<>>
    /\ ambiguous = <<>>
    /\ done = FALSE
    /\ seen_dois = <<>>
    /\ lookups = <<>>
    /\ gerr = ""
    /\ gpc = "idle"
    /\ caller = ""
    /\ url = <<>>
    /\ attempt = 0
    /\ elapsed = RateTicks
    /\ gap = RateTicks
    /\ requests = 0
    /\ sleeps = <<>>
    /\ response = NoResponse
    /\ getResult = NoResult
    /\ wres = NoWres
    /\ calls = 0
    /\ tpc = "idle"
    /\ configured = FALSE
    /\ serverParses = FALSE
    /\ redis = <<>>
    /\ netCalls = 0
    /\ hit = FALSE
    /\ cres = NoCall
    /\ ures = NoCall
    /\ lookupsDone = 0
    /\ kpc = "idle"

CacheInit ==
    /\ configured \in BOOLEAN
    /\ serverParses \in BOOLEAN
    /\ redis = <<>>
    /\ netCalls = 0
    /\ hit = FALSE
    /\ cres = NoCall
    /\ ures = NoCall
    /\ lookupsDone = 0
    /\ kpc = "ready"
    /\ line = <<>>
    /\ typed = <<>>
    /\ lineKind = "empty"
    /\ bareDoi = None
    /\ info = EmptyResult(<<>>)
    /\ cpc = "idle"
    /\ rec = RecEmpty
    /\ rawDoi = <<>>
    /\ ordinal = 0
    /\ style = ""
    /\ out = <<>>
    /\ fpc = "idle"
    /\ author = <<>>
    /\ query = <<>>
    /\ matched = FALSE
    /\ mpc = "idle"
    /\ htext = <<>>
    /\ targets = <<>>
    /\ tagPair = MdBold
    /\ hpc = "idle"
    /\ rawInput = <<>>
    /\ runs = 0
    /\ entries = <<>>
    /\ ambiguous = <<>>
    /\ done = FALSE
    /\ seen_dois = <<>>
    /\ lookups = <<>>
    /\ gerr = ""
    /\ gpc = "idle"
    /\ caller = ""
    /\ url = <<>>
    /\ attempt = 0
    /\ elapsed = RateTicks
    /\ gap = RateTicks
    /\ requests = 0
    /\ sleeps = <<>>
    /\ response = NoResponse
    /\ getResult = NoResult
    /\ wres = NoWres
    /\ calls = 0
    /\ tpc = "idle"
    /\ cliLine = <<>>
    /\ cands = <<>>
    /\ choice = <<>>
    /\ net = TRUE
    /\ prompts = 0
    /\ ret = NoRet
    /\ cliIdx = 1
    /\ cliDone = 0
    /\ clipc = "idle"

SpecClassify == ClassifyInit /\ [][ClassifyNext]_vars

SpecFormat == FormatInit /\ [][FormatNext]_vars

SpecMatch == MatchInit /\ [][MatchNext]_vars

SpecHighlight == HighlightInit /\ [][HighlightNext]_vars

SpecGui == GuiInit /\ [][GuiNext]_vars

SpecGet == GetInit /\ [][GetNext]_vars

SpecCli == CliInit /\ [][CliNext]_vars

SpecCache == CacheInit /\ [][CacheNext]_vars

====
